---- MODULE Spec2Model ----
(***************************************************************************)
(* State-machine model of the jet-fighter game screen (React component     *)
(* GameScreen) and the pure helpers it calls.                              *)
(*                                                                         *)
(* Granularity.  One action is one browser callback (a click handler, a    *)
(* joystick/fire handler, one requestAnimationFrame tick, one setTimeout   *)
(* callback) together with the React render it causes and the effects of   *)
(* that render.  Updates are batched: an updater function passed to a      *)
(* useState setter runs at the render, hook by hook in declaration order,  *)
(* and a setter called from inside an updater is applied after the updates *)
(* already queued for its hook.  A ref that is written by an effect        *)
(* (gameStateRef, playerPosRef, ...) keeps, for the whole callback and its *)
(* render, the value of the last render: it is only refreshed by the       *)
(* effects that close the action.                                          *)
(*                                                                         *)
(* Environment.  controlEvents counts the touch events of the running game *)
(* (pause, joystick move and release, fire press and release); the model   *)
(* explores the games with at most MaxControlEvents of them.  For          *)
(* GameScreen.tsx it counts the touches without the releases, at most      *)
(* MaxControlEventsGS.                                                     *)
(*                                                                         *)
(* Numbers.  JavaScript floats are replaced by fixed point integers:       *)
(*   positions   in 1/1000 of a percent of the playfield,                  *)
(*   velocities  in 1/1000 of a pixel per second,                          *)
(*   unit vectors, magnitudes, factors in 1/1000,                          *)
(*   times       in milliseconds (timeRemaining too),                      *)
(*   distances   in 1/10 of a pixel when circles are compared.             *)
(***************************************************************************)
EXTENDS Integers, Sequences, FiniteSets, TLC

(***************************************************************************)
(* Program constants                                                       *)
(***************************************************************************)
JET_SIZE == 32
BULLET_SPEED == 400
FIRE_COOLDOWN == 120
BASE_MOVEMENT_SPEED == 180
OBSTACLE_SPEED == 120
OBSTACLE_SIZE_SMALL == 18
OBSTACLE_SIZE_MEDIUM == 24
OBSTACLE_SIZE_LARGE == 30
BOSS_SIZE == 50
BULLET_SIZE == 4
OBSTACLE_SPAWN_INTERVAL == 1000
MAX_DELTA_TIME == 100
BULLET_SPAWN_OFFSET == 30
FACING_THRESHOLD == 100
COLLISION_SOLVER_PASSES == 3
BOSS_MAX_HITS == 15
SCORE_SMALL == 5
SCORE_MEDIUM == 10
SCORE_LARGE == 15
SCORE_BOSS == 100
BULLET_FPS == 60
DEADZONE == 150
MAX_SPEED_MULTIPLIER == 250
DEFAULT_SENSITIVITY == 1000
MsPerSecond == 1000

(***************************************************************************)
(* Bounds of the model (not program constants)                             *)
(***************************************************************************)
MaxLevel == 2
MaxBullets == 25
MaxObstacles == 3
MaxControlEvents == 2
MaxControlEventsGS == 1

(***************************************************************************)
(* Inputs the environment may supply                                       *)
(***************************************************************************)
\* playfield sizes the browser may report (pixels)
PlayfieldSizes == {[width |-> 400, height |-> 400]}
\* time between two animation frames, or since the frame-time anchor (ms)
ElapsedChoices == {100, 250}
\* joystick vectors (x, y, magnitude in 1/1000)
JoystickInputs ==
  { [x |-> 0, y |-> -1000, magnitude |-> 1000] }
\* Math.random() outcomes of spawnObstacle: size class, spawn x, direction
SizeDraws == {"small", "large"}
SpawnXDraws == {50000}
AngleDraws == {0}
\* Math.random() outcome of spawnObstacle in GameScreen.tsx: (random - 0.5) * 60
BaseVxDraws == {0}
\* Math.random() outcome of spawnBoss: direction
BossAngleDraws == {0}

GameStates == {"idle", "playing", "exploding", "gameover", "paused", "levelcomplete"}
GameOverReasons == {"border", "obstacle", "timeExpired"}
NoReason == "null"
ZeroVector == [x |-> 0, y |-> 0, magnitude |-> 0]

(***************************************************************************)
(* Arithmetic helpers                                                      *)
(***************************************************************************)
Min(a, b) == IF a < b THEN a ELSE b
Max(a, b) == IF a > b THEN a ELSE b
Abs(a) == IF a < 0 THEN -a ELSE a

\* sin and cos of the angles the inputs above can produce, in 1/1000
Sin1000(deg) ==
  CASE deg = 0 -> 0
    [] deg = 30 -> 500
    [] deg = -30 -> -500
    [] deg = 90 -> 1000
    [] deg = -90 -> -1000
    [] deg = 180 -> 0
Cos1000(deg) ==
  CASE deg = 0 -> 1000
    [] deg = 30 -> 866
    [] deg = -30 -> 866
    [] deg = 90 -> 0
    [] deg = -90 -> 0
    [] deg = 180 -> -1000

\* Math.atan2(x, -y) in degrees for the axis directions of JoystickInputs
Atan2Deg(x, negY) ==
  CASE x = 0 /\ negY > 0 -> 0
    [] x > 0 /\ negY = 0 -> 90
    [] x < 0 /\ negY = 0 -> -90
    [] x = 0 /\ negY < 0 -> 180
    [] OTHER -> 0

(***************************************************************************)
(* utils/levelTimer.ts                                                     *)
(***************************************************************************)
\* the duration of the first level for every level
getLevelDurationFlat(lvl) == 30

getLevelDuration(lvl) == 30 + (lvl - 1) * 5

(***************************************************************************)
(* GameScreen: boss spawn threshold                                        *)
(***************************************************************************)
\* no threshold: the boss is due from the first tick of every level
getBossSpawnThresholdNone(lvl) == 0

\* the threshold with the scaling of the levels from 3 on taken one level
\* too far: 5, 10, 20, 25, ...
getBossSpawnThresholdOneLevelAhead(lvl) ==
  IF lvl = 1 THEN 5
  ELSE IF lvl = 2 THEN 10
  ELSE 5 + lvl * 5

getBossSpawnThreshold(lvl) ==
  IF lvl = 1 THEN 5
  ELSE IF lvl = 2 THEN 10
  ELSE 5 + (lvl - 1) * 5

(***************************************************************************)
(* Integer square root (Math.sqrt on the 1/10 pixel grid)                  *)
(***************************************************************************)
RECURSIVE SqrtSearch(_, _, _)
SqrtSearch(n, lo, hi) ==
  IF lo >= hi THEN lo
  ELSE LET mid == (lo + hi + 1) \div 2
       IN IF mid * mid <= n THEN SqrtSearch(n, mid, hi) ELSE SqrtSearch(n, lo, mid - 1)
ISqrt(n) == SqrtSearch(n, 0, 46340)

(***************************************************************************)
(* physics/bounds.ts                                                       *)
(***************************************************************************)
\* (entityHalfSize / max) * 100, in 1/1000 percent
HalfPercent(entityHalfSize, maxDim) == (entityHalfSize * 100000) \div maxDim

clampPosition(pos, maxWidth, maxHeight, entityHalfSize) ==
  LET minPercent == HalfPercent(entityHalfSize, maxWidth)
      maxPercentX == 100000 - minPercent
      maxPercentY == 100000 - HalfPercent(entityHalfSize, maxHeight)
  IN [x |-> Max(minPercent, Min(maxPercentX, pos.x)),
      y |-> Max(minPercent, Min(maxPercentY, pos.y))]

\* reflectAtBounds that clamps the position and keeps the velocity
reflectAtBoundsWithoutBounce(pos, vel, maxWidth, maxHeight, entityHalfSize) ==
  [position |-> clampPosition(pos, maxWidth, maxHeight, entityHalfSize), velocity |-> vel]

reflectAtBounds(pos, vel, maxWidth, maxHeight, entityHalfSize) ==
  LET minPercent == HalfPercent(entityHalfSize, maxWidth)
      maxPercentX == 100000 - minPercent
      maxPercentY == 100000 - HalfPercent(entityHalfSize, maxHeight)
      px == IF pos.x < minPercent THEN minPercent
            ELSE IF pos.x > maxPercentX THEN maxPercentX ELSE pos.x
      vx == IF pos.x < minPercent THEN Abs(vel.x)
            ELSE IF pos.x > maxPercentX THEN -Abs(vel.x) ELSE vel.x
      py == IF pos.y < minPercent THEN minPercent
            ELSE IF pos.y > maxPercentY THEN maxPercentY ELSE pos.y
      vy == IF pos.y < minPercent THEN Abs(vel.y)
            ELSE IF pos.y > maxPercentY THEN -Abs(vel.y) ELSE vel.y
  IN [position |-> [x |-> px, y |-> py], velocity |-> [x |-> vx, y |-> vy]]

isOutOfBounds(pos, maxWidth, maxHeight, entityHalfSize) ==
  LET minPercent == HalfPercent(entityHalfSize, maxWidth)
      maxPercentX == 100000 - minPercent
      maxPercentY == 100000 - HalfPercent(entityHalfSize, maxHeight)
  IN \/ pos.x < minPercent
     \/ pos.x > maxPercentX
     \/ pos.y < minPercent
     \/ pos.y > maxPercentY

\* not among the source files: "true when the entity's circle touches or
\* exceeds the boundary"
isAtBorder(pos, maxWidth, maxHeight, entityHalfSize) ==
  LET minPercent == HalfPercent(entityHalfSize, maxWidth)
      maxPercentX == 100000 - minPercent
      maxPercentY == 100000 - HalfPercent(entityHalfSize, maxHeight)
  IN \/ pos.x <= minPercent
     \/ pos.x >= maxPercentX
     \/ pos.y <= minPercent
     \/ pos.y >= maxPercentY

(***************************************************************************)
(* physics/vectors.ts                                                      *)
(***************************************************************************)
angleToForwardVector(angleDegrees) ==
  [x |-> Sin1000(angleDegrees), y |-> -Cos1000(angleDegrees)]

\* deltaTime is 1 / fps seconds; the result is in 1/1000 percent per frame
pixelVelocityToPercent(pixelsPerSecond, direction, playfieldWidth, playfieldHeight, fps) ==
  [x |-> (direction.x * pixelsPerSecond * 100) \div (fps * playfieldWidth),
   y |-> (direction.y * pixelsPerSecond * 100) \div (fps * playfieldHeight)]

offsetPosition(basePosition, direction, offsetPixels, playfieldWidth, playfieldHeight) ==
  [x |-> basePosition.x + (direction.x * offsetPixels * 100) \div playfieldWidth,
   y |-> basePosition.y + (direction.y * offsetPixels * 100) \div playfieldHeight]

(***************************************************************************)
(* physics/playerObstacleHit.ts                                            *)
(***************************************************************************)
\* centre distance of two percent positions, squared, in (1/10 pixel)^2
DistSq10(p1, p2, playfieldWidth, playfieldHeight) ==
  LET dx == ((p2.x - p1.x) * playfieldWidth) \div 10000
      dy == ((p2.y - p1.y) * playfieldHeight) \div 10000
  IN dx * dx + dy * dy

\* isFullHit with overlapDepth > fullHitThreshold
isFullHitStrict(playerPos_, playerRadius, obstaclePos, obstacleRadius, playfieldWidth, playfieldHeight) ==
  IF playfieldWidth = 0 \/ playfieldHeight = 0 THEN FALSE
  ELSE LET distSq == DistSq10(playerPos_, obstaclePos, playfieldWidth, playfieldHeight)
           combinedRadius == (playerRadius + obstacleRadius) * 10
           fullHitThreshold == Min(playerRadius, obstacleRadius) * 4
       IN IF distSq >= combinedRadius * combinedRadius THEN FALSE
          ELSE distSq < (combinedRadius - fullHitThreshold) * (combinedRadius - fullHitThreshold)

isFullHit(playerPos_, playerRadius, obstaclePos, obstacleRadius, playfieldWidth, playfieldHeight) ==
  IF playfieldWidth = 0 \/ playfieldHeight = 0 THEN FALSE
  ELSE LET distSq == DistSq10(playerPos_, obstaclePos, playfieldWidth, playfieldHeight)
           combinedRadius == (playerRadius + obstacleRadius) * 10
           referenceRadius == Min(playerRadius, obstacleRadius)
           \* referenceRadius * 0.4, in 1/10 pixel
           fullHitThreshold == referenceRadius * 4
       IN IF distSq >= combinedRadius * combinedRadius THEN FALSE
          \* overlapDepth >= fullHitThreshold, with overlapDepth = combinedRadius - distance
          ELSE distSq <= (combinedRadius - fullHitThreshold) * (combinedRadius - fullHitThreshold)

(***************************************************************************)
(* utils/joystickMovement.ts                                               *)
(***************************************************************************)
\* Math.pow(normalizedMagnitude, 2.8) at the sample points the inputs use
SpeedCurve(normalizedMagnitude) ==
  CASE normalizedMagnitude <= 0 -> 0
    [] normalizedMagnitude = 250 -> 21
    [] normalizedMagnitude = 500 -> 144
    [] normalizedMagnitude = 750 -> 447
    [] normalizedMagnitude >= 1000 -> 1000

\* processJoystickInput without the deadzone: the curve starts at the centre
processJoystickInputWithoutDeadzone(input) ==
  LET distance == ISqrt(input.x * input.x + input.y * input.y)
      direction == IF distance > 0
                   THEN [x |-> (input.x * 1000) \div distance,
                         y |-> (input.y * 1000) \div distance]
                   ELSE [x |-> 0, y |-> 0]
      speedFactor == (input.magnitude * MAX_SPEED_MULTIPLIER) \div 1000
  IN [direction |-> direction, speedFactor |-> speedFactor]

processJoystickInput(input) ==
  IF input.magnitude < DEADZONE
  THEN [direction |-> [x |-> 0, y |-> 0], speedFactor |-> 0]
  ELSE LET distance == ISqrt(input.x * input.x + input.y * input.y)
           direction == IF distance > 0
                        THEN [x |-> (input.x * 1000) \div distance,
                              y |-> (input.y * 1000) \div distance]
                        ELSE [x |-> 0, y |-> 0]
           normalizedMagnitude == ((input.magnitude - DEADZONE) * 1000) \div (1000 - DEADZONE)
           curvedMagnitude == SpeedCurve(normalizedMagnitude)
           speedFactor == (curvedMagnitude * MAX_SPEED_MULTIPLIER) \div 1000
       IN [direction |-> direction, speedFactor |-> speedFactor]

(***************************************************************************)
(* hooks/useJoystickSensitivity.ts                                         *)
(*                                                                         *)
(* The item of localStorage is a record: kind "null" (no item), "throws"   *)
(* (localStorage cannot be used), "decimal" (the text of a finite number,  *)
(* value in 1/1000), "prefixed" (such a text followed by other characters),*)
(* "infinity" (the text Infinity) or "word" (a text that starts with no    *)
(* number).  A number is a record of kind "finite", "Infinity" or "NaN".   *)
(***************************************************************************)
DEFAULT_SENSITIVITY_TS == 2000
MIN_SENSITIVITY == 500
MAX_SENSITIVITY == 2000

NoItem == [kind |-> "null", value |-> 0]
StorageThrows == [kind |-> "throws", value |-> 0]

\* Number.prototype.toString of a sensitivity
toString(number) == [kind |-> "decimal", value |-> number]

\* parseFloat: the longest numeric prefix of the text, NaN without one
parseFloat(text) ==
  CASE text.kind \in {"decimal", "prefixed"} -> [kind |-> "finite", value |-> text.value]
    [] text.kind = "infinity" -> [kind |-> "Infinity", value |-> 0]
    [] OTHER -> [kind |-> "NaN", value |-> 0]

\* the initialiser of useState: the stored value where it is valid
initialSensitivity(item) ==
  IF item = StorageThrows THEN DEFAULT_SENSITIVITY_TS
  ELSE IF item # NoItem
       THEN LET parsed == parseFloat(item)
            IN IF /\ parsed.kind # "NaN"
                  /\ parsed.kind = "finite"
                  /\ parsed.value >= MIN_SENSITIVITY
                  /\ parsed.value <= MAX_SENSITIVITY
               THEN parsed.value
               ELSE DEFAULT_SENSITIVITY_TS
       ELSE DEFAULT_SENSITIVITY_TS

\* Math.max(MIN_SENSITIVITY, Math.min(MAX_SENSITIVITY, value))
clampSensitivity(value) == Max(MIN_SENSITIVITY, Min(MAX_SENSITIVITY, value))

\* useEffect [sensitivity]: the item after the clamped value was stored
persistSensitivity(item, value) ==
  IF item = StorageThrows THEN item ELSE toString(clampSensitivity(value))

(***************************************************************************)
(* physics/obstacleCollisions.ts                                           *)
(***************************************************************************)
DAMPING == 950
MAX_IMPULSE == 500
MAX_VELOCITY == 500

clampVelocity(v) ==
  [x |-> Max(-MAX_VELOCITY * 1000, Min(MAX_VELOCITY * 1000, v.x)),
   y |-> Max(-MAX_VELOCITY * 1000, Min(MAX_VELOCITY * 1000, v.y))]

\* resolveObstacleCollision with the normal (dx, dy) / distance also where the
\* centres coincide
resolveObstacleCollisionWithoutFallback(pos1, vel1, radius1, pos2, vel2, radius2, playfieldWidth, playfieldHeight) ==
  LET \* positions in 1/1000 pixel
      x1 == (pos1.x * playfieldWidth) \div 100
      y1 == (pos1.y * playfieldHeight) \div 100
      x2 == (pos2.x * playfieldWidth) \div 100
      y2 == (pos2.y * playfieldHeight) \div 100
      \* centre distance in 1/10 pixel
      dx == (x2 - x1) \div 100
      dy == (y2 - y1) \div 100
      distance == ISqrt(dx * dx + dy * dy)
      minDistance == (radius1 + radius2) * 10
      \* distance < EPSILON (0.001 pixel): the centres coincide on the grid
      nearZero == (x2 - x1 = 0) /\ (y2 - y1 = 0)
      d == IF distance = 0 THEN 1 ELSE distance
      nx == (dx * 1000) \div d
      ny == (dy * 1000) \div d
      \* overlap / 2 + EPSILON, in 1/1000 pixel
      halfOverlap == ((minDistance - distance) * 100) \div 2 + 1
      separationX == (halfOverlap * nx) \div 1000
      separationY == (halfOverlap * ny) \div 1000
      newX1 == x1 - separationX
      newY1 == y1 - separationY
      newX2 == x2 + separationX
      newY2 == y2 + separationY
      dvx == vel2.x - vel1.x
      dvy == vel2.y - vel1.y
      dvn == (dvx * nx + dvy * ny) \div 1000
      damped == (dvn * DAMPING) \div 1000
      impulse == IF Abs(damped) > MAX_IMPULSE * 1000
                 THEN (IF damped < 0 THEN -MAX_IMPULSE * 1000 ELSE MAX_IMPULSE * 1000)
                 ELSE damped
      newVel1 == IF dvn < 0
                 THEN [x |-> vel1.x + (impulse * nx) \div 1000, y |-> vel1.y + (impulse * ny) \div 1000]
                 ELSE vel1
      newVel2 == IF dvn < 0
                 THEN [x |-> vel2.x - (impulse * nx) \div 1000, y |-> vel2.y - (impulse * ny) \div 1000]
                 ELSE vel2
  IN IF distance >= minDistance
     THEN [collided |-> FALSE]
     ELSE [collided |-> TRUE,
           newVelocity1 |-> clampVelocity(newVel1),
           newVelocity2 |-> clampVelocity(newVel2),
           newPosition1 |-> [x |-> (newX1 * 100) \div playfieldWidth, y |-> (newY1 * 100) \div playfieldHeight],
           newPosition2 |-> [x |-> (newX2 * 100) \div playfieldWidth, y |-> (newY2 * 100) \div playfieldHeight]]

\* resolveObstacleCollision that leaves alone a pair that is not approaching
resolveObstacleCollisionUnlessSeparating(pos1, vel1, radius1, pos2, vel2, radius2, playfieldWidth, playfieldHeight) ==
  LET \* positions in 1/1000 pixel
      x1 == (pos1.x * playfieldWidth) \div 100
      y1 == (pos1.y * playfieldHeight) \div 100
      x2 == (pos2.x * playfieldWidth) \div 100
      y2 == (pos2.y * playfieldHeight) \div 100
      \* centre distance in 1/10 pixel
      dx == (x2 - x1) \div 100
      dy == (y2 - y1) \div 100
      distance == ISqrt(dx * dx + dy * dy)
      minDistance == (radius1 + radius2) * 10
      \* distance < EPSILON (0.001 pixel): the centres coincide on the grid
      nearZero == (x2 - x1 = 0) /\ (y2 - y1 = 0)
      d == IF distance = 0 THEN 1 ELSE distance
      nx == IF nearZero \/ distance = 0 THEN 1000 ELSE (dx * 1000) \div d
      ny == IF nearZero \/ distance = 0 THEN 0 ELSE (dy * 1000) \div d
      \* overlap / 2 + EPSILON, in 1/1000 pixel
      halfOverlap == ((minDistance - distance) * 100) \div 2 + 1
      separationX == (halfOverlap * nx) \div 1000
      separationY == (halfOverlap * ny) \div 1000
      newX1 == x1 - separationX
      newY1 == y1 - separationY
      newX2 == x2 + separationX
      newY2 == y2 + separationY
      dvx == vel2.x - vel1.x
      dvy == vel2.y - vel1.y
      dvn == (dvx * nx + dvy * ny) \div 1000
      damped == (dvn * DAMPING) \div 1000
      impulse == IF Abs(damped) > MAX_IMPULSE * 1000
                 THEN (IF damped < 0 THEN -MAX_IMPULSE * 1000 ELSE MAX_IMPULSE * 1000)
                 ELSE damped
      newVel1 == IF dvn < 0
                 THEN [x |-> vel1.x + (impulse * nx) \div 1000, y |-> vel1.y + (impulse * ny) \div 1000]
                 ELSE vel1
      newVel2 == IF dvn < 0
                 THEN [x |-> vel2.x - (impulse * nx) \div 1000, y |-> vel2.y - (impulse * ny) \div 1000]
                 ELSE vel2
  IN IF distance >= minDistance \/ dvn >= 0
     THEN [collided |-> FALSE]
     ELSE [collided |-> TRUE,
           newVelocity1 |-> clampVelocity(newVel1),
           newVelocity2 |-> clampVelocity(newVel2),
           newPosition1 |-> [x |-> (newX1 * 100) \div playfieldWidth, y |-> (newY1 * 100) \div playfieldHeight],
           newPosition2 |-> [x |-> (newX2 * 100) \div playfieldWidth, y |-> (newY2 * 100) \div playfieldHeight]]

resolveObstacleCollision(pos1, vel1, radius1, pos2, vel2, radius2, playfieldWidth, playfieldHeight) ==
  LET \* positions in 1/1000 pixel
      x1 == (pos1.x * playfieldWidth) \div 100
      y1 == (pos1.y * playfieldHeight) \div 100
      x2 == (pos2.x * playfieldWidth) \div 100
      y2 == (pos2.y * playfieldHeight) \div 100
      \* centre distance in 1/10 pixel
      dx == (x2 - x1) \div 100
      dy == (y2 - y1) \div 100
      distance == ISqrt(dx * dx + dy * dy)
      minDistance == (radius1 + radius2) * 10
      \* distance < EPSILON (0.001 pixel): the centres coincide on the grid
      nearZero == (x2 - x1 = 0) /\ (y2 - y1 = 0)
      d == IF distance = 0 THEN 1 ELSE distance
      nx == IF nearZero \/ distance = 0 THEN 1000 ELSE (dx * 1000) \div d
      ny == IF nearZero \/ distance = 0 THEN 0 ELSE (dy * 1000) \div d
      \* overlap / 2 + EPSILON, in 1/1000 pixel
      halfOverlap == ((minDistance - distance) * 100) \div 2 + 1
      separationX == (halfOverlap * nx) \div 1000
      separationY == (halfOverlap * ny) \div 1000
      newX1 == x1 - separationX
      newY1 == y1 - separationY
      newX2 == x2 + separationX
      newY2 == y2 + separationY
      dvx == vel2.x - vel1.x
      dvy == vel2.y - vel1.y
      dvn == (dvx * nx + dvy * ny) \div 1000
      damped == (dvn * DAMPING) \div 1000
      impulse == IF Abs(damped) > MAX_IMPULSE * 1000
                 THEN (IF damped < 0 THEN -MAX_IMPULSE * 1000 ELSE MAX_IMPULSE * 1000)
                 ELSE damped
      newVel1 == IF dvn < 0
                 THEN [x |-> vel1.x + (impulse * nx) \div 1000, y |-> vel1.y + (impulse * ny) \div 1000]
                 ELSE vel1
      newVel2 == IF dvn < 0
                 THEN [x |-> vel2.x - (impulse * nx) \div 1000, y |-> vel2.y - (impulse * ny) \div 1000]
                 ELSE vel2
  IN IF distance >= minDistance
     THEN [collided |-> FALSE]
     ELSE [collided |-> TRUE,
           newVelocity1 |-> clampVelocity(newVel1),
           newVelocity2 |-> clampVelocity(newVel2),
           newPosition1 |-> [x |-> (newX1 * 100) \div playfieldWidth, y |-> (newY1 * 100) \div playfieldHeight],
           newPosition2 |-> [x |-> (newX2 * 100) \div playfieldWidth, y |-> (newY2 * 100) \div playfieldHeight]]

(***************************************************************************)
(* State of the GameScreen component                                       *)
(***************************************************************************)
VARIABLES
  controlEvents,                \* environment: touch events of the running game so far
  gameState,                    \* useState: the game phase
  gameOverReason,               \* useState: NoReason or a GameOverReason
  playerPos,                    \* useState: {x, y}
  bullets,                      \* useState: sequence of bullets (React keys omitted)
  obstacles,                    \* useState: sequence of obstacles
  explosions,                   \* useState: variants of the explosions added by a game over
  playfieldSize,                \* useState, mirrored by playfieldSizeRef
  facingAngle,                  \* useState, degrees
  score,
  level,
  destroyedThisLevel,
  bossActive,
  bossHits,
  timeRemaining,                \* useState, here in milliseconds
  sensitivity,                  \* useJoystickSensitivity, in 1/1000
  storedSensitivity,            \* localStorage: the item under STORAGE_KEY
  joystickVectorRef,
  explosionTimerRef,            \* "null", "pending" (timeout armed), "cleared" (id kept, timeout cancelled)
  orphanTimers,                 \* armed explode timeouts whose id is no longer in explosionTimerRef
  animationFrameRef,            \* TRUE when a frame is requested
  obstacleSpawnAccumulatorRef,
  isFiringRef,
  fireAccumulatorRef,
  bossSpawnedThisAttemptRef,
  gameStateRef                  \* written by an effect after each render

vars ==
  << gameState, gameOverReason, playerPos, bullets, obstacles, explosions,
     playfieldSize, facingAngle, score, level, destroyedThisLevel, bossActive,
     bossHits, timeRemaining, sensitivity, storedSensitivity, joystickVectorRef, explosionTimerRef,
     orphanTimers, animationFrameRef, obstacleSpawnAccumulatorRef, isFiringRef,
     fireAccumulatorRef, bossSpawnedThisAttemptRef, gameStateRef, controlEvents >>

StartPos == [x |-> 50000, y |-> 50000]

\* state after construction and the mount effects (the playfield is measured)
Init ==
  /\ gameState = "idle"
  /\ gameOverReason = NoReason
  /\ playerPos = StartPos
  /\ bullets = << >>
  /\ obstacles = << >>
  /\ explosions = << >>
  /\ playfieldSize \in PlayfieldSizes
  /\ facingAngle = 0
  /\ score = 0
  /\ level = 1
  /\ destroyedThisLevel = 0
  /\ bossActive = FALSE
  /\ bossHits = 0
  /\ timeRemaining = 0
  /\ sensitivity = DEFAULT_SENSITIVITY
  /\ storedSensitivity = toString(sensitivity)
  /\ joystickVectorRef = ZeroVector
  /\ explosionTimerRef = "null"
  /\ orphanTimers = 0
  /\ animationFrameRef = FALSE
  /\ obstacleSpawnAccumulatorRef = 0
  /\ isFiringRef = FALSE
  /\ fireAccumulatorRef = 0
  /\ bossSpawnedThisAttemptRef = FALSE
  /\ gameStateRef = "idle"
  /\ controlEvents = 0

\* one more touch event of the running game
Control == controlEvents < MaxControlEvents /\ controlEvents' = controlEvents + 1

(***************************************************************************)
(* Effects that run after the render closing each callback                 *)
(***************************************************************************)
\* useEffect [gameState, level]: initialise the countdown
TimerInitEffect(gsOld, lvlOld, gsNew, lvlNew, time) ==
  IF (gsNew # gsOld \/ lvlNew # lvlOld) /\ gsNew = "playing"
  THEN getLevelDuration(lvlNew) * MsPerSecond
  ELSE time

\* the effect without its reset: the refs keep what they held when the
\* phase was left
InputResetEffectKeepsLatches(gsOld, gsNew, inputs) == inputs

\* useEffect [gameState]: reset joystick and firing when leaving playing
InputResetEffect(gsOld, gsNew, inputs) ==
  IF gsNew # gsOld /\ gsNew # "playing"
  THEN [joystickVectorRef |-> ZeroVector, isFiringRef |-> FALSE, fireAccumulatorRef |-> 0]
  ELSE inputs

\* the game loop effect without its early return: a frame is requested in
\* every phase
LoopEffectInEveryPhase(gsNew) == gsNew \in GameStates

\* game loop effect: a frame stays requested only while the phase is playing
LoopEffect(gsNew) == gsNew = "playing"

\* the render and the effects closing a callback that left the component with
\* phase gsNew, level lvlNew, countdown time and the given input refs
Render(gsNew, lvlNew, time, inputs) ==
  LET reset == InputResetEffect(gameState, gsNew, inputs)
  IN /\ gameState' = gsNew
     /\ level' = lvlNew
     /\ timeRemaining' = TimerInitEffect(gameState, level, gsNew, lvlNew, time)
     /\ joystickVectorRef' = reset.joystickVectorRef
     /\ isFiringRef' = reset.isFiringRef
     /\ fireAccumulatorRef' = reset.fireAccumulatorRef
     /\ gameStateRef' = gsNew
     /\ animationFrameRef' = LoopEffect(gsNew)

Inputs(joy, firing, acc) ==
  [joystickVectorRef |-> joy, isFiringRef |-> firing, fireAccumulatorRef |-> acc]

(***************************************************************************)
(* GameOverlay: the controls the overlay renders in each phase.  The       *)
(* handlers of the screen have no phase guard of their own: an intent can  *)
(* only arrive through a control that is rendered.                         *)
(***************************************************************************)
\* the start screen and the game over screen carry the button of onStart
StartButtonShown == gameState \in {"idle", "gameover"}

\* the HUD with the pause button is rendered while playing and while paused
PauseButtonShown == gameState \in {"playing", "paused"}

\* a resume button rendered in every phase
ResumeButtonShownInEveryPhase == gameState \in GameStates

\* the pause screen carries the button of onResume
ResumeButtonShown == gameState = "paused"

\* the level complete screen carries the button of onNextLevel
NextLevelButtonShown == gameState = "levelcomplete"

\* handlePointerDown returns at once unless the phase is playing
FireAreaActive == gameState = "playing"

(***************************************************************************)
(* Intent handlers                                                         *)
(***************************************************************************)
startGame ==
  /\ StartButtonShown
  /\ gameOverReason' = NoReason
  /\ playerPos' = StartPos
  /\ facingAngle' = 0
  /\ bullets' = << >>
  /\ obstacles' = << >>
  /\ explosions' = << >>
  /\ score' = 0
  /\ destroyedThisLevel' = 0
  /\ bossActive' = FALSE
  /\ bossHits' = 0
  /\ bossSpawnedThisAttemptRef' = FALSE
  /\ obstacleSpawnAccumulatorRef' = 0
  /\ explosionTimerRef' = "null"
  /\ Render("playing", 1, timeRemaining, Inputs(ZeroVector, FALSE, 0))
  /\ controlEvents' = 0
  /\ UNCHANGED << playfieldSize, sensitivity, storedSensitivity, orphanTimers >>

pauseGame ==
  /\ PauseButtonShown
  /\ Control
  /\ Render("paused", level, timeRemaining,
            Inputs(joystickVectorRef, isFiringRef, fireAccumulatorRef))
  /\ UNCHANGED << gameOverReason, playerPos, bullets, obstacles, explosions,
                  playfieldSize, facingAngle, score, destroyedThisLevel, bossActive,
                  bossHits, sensitivity, storedSensitivity, explosionTimerRef, orphanTimers,
                  obstacleSpawnAccumulatorRef, bossSpawnedThisAttemptRef >>

resumeGame ==
  /\ ResumeButtonShown
  /\ Render("playing", level, timeRemaining,
            Inputs(joystickVectorRef, isFiringRef, fireAccumulatorRef))
  /\ UNCHANGED << gameOverReason, playerPos, bullets, obstacles, explosions,
                  playfieldSize, facingAngle, score, destroyedThisLevel, bossActive,
                  bossHits, sensitivity, storedSensitivity, explosionTimerRef, orphanTimers,
                  obstacleSpawnAccumulatorRef, bossSpawnedThisAttemptRef, controlEvents >>

nextLevel ==
  /\ NextLevelButtonShown
  /\ level < MaxLevel
  /\ gameOverReason' = NoReason
  /\ playerPos' = StartPos
  /\ facingAngle' = 0
  /\ bullets' = << >>
  /\ obstacles' = << >>
  /\ explosions' = << >>
  /\ destroyedThisLevel' = 0
  /\ bossActive' = FALSE
  /\ bossHits' = 0
  /\ bossSpawnedThisAttemptRef' = FALSE
  /\ obstacleSpawnAccumulatorRef' = 0
  /\ explosionTimerRef' = "null"
  /\ Render("playing", level + 1, timeRemaining, Inputs(ZeroVector, FALSE, 0))
  /\ UNCHANGED << score, playfieldSize, sensitivity, storedSensitivity, orphanTimers, controlEvents >>

\* the setTimeout callback armed by triggerGameOver
explosionTimeout ==
  /\ explosionTimerRef = "pending"
  /\ explosionTimerRef' = "null"
  /\ Render("gameover", level, timeRemaining,
            Inputs(joystickVectorRef, isFiringRef, fireAccumulatorRef))
  /\ UNCHANGED << gameOverReason, playerPos, bullets, obstacles, explosions,
                  playfieldSize, facingAngle, score, destroyedThisLevel, bossActive,
                  bossHits, sensitivity, storedSensitivity, orphanTimers,
                  obstacleSpawnAccumulatorRef, bossSpawnedThisAttemptRef, controlEvents >>

(***************************************************************************)
(* Input handlers                                                          *)
(***************************************************************************)
InputFrame ==
  << gameState, gameOverReason, playerPos, bullets, obstacles, explosions,
     playfieldSize, score, level, destroyedThisLevel, bossActive, bossHits,
     timeRemaining, sensitivity, storedSensitivity, explosionTimerRef, orphanTimers, animationFrameRef,
     obstacleSpawnAccumulatorRef, bossSpawnedThisAttemptRef, gameStateRef >>

handleJoystickMove(vector) ==
  /\ gameStateRef = "playing"
  /\ Control
  /\ joystickVectorRef' = vector
  /\ facingAngle' = IF vector.magnitude > FACING_THRESHOLD
                    THEN Atan2Deg(vector.x, -vector.y)
                    ELSE facingAngle
  /\ UNCHANGED << isFiringRef, fireAccumulatorRef >>
  /\ UNCHANGED InputFrame

handleJoystickNeutral ==
  /\ Control
  /\ joystickVectorRef' = ZeroVector
  /\ UNCHANGED << facingAngle, isFiringRef, fireAccumulatorRef >>
  /\ UNCHANGED InputFrame

handleFireStart ==
  /\ Control
  /\ isFiringRef' = (IF gameStateRef = "playing" THEN TRUE ELSE isFiringRef)
  /\ UNCHANGED << facingAngle, joystickVectorRef, fireAccumulatorRef >>
  /\ UNCHANGED InputFrame

handleFireEnd ==
  /\ Control
  /\ isFiringRef' = FALSE
  /\ fireAccumulatorRef' = 0
  /\ UNCHANGED << facingAngle, joystickVectorRef >>
  /\ UNCHANGED InputFrame

(***************************************************************************)
(* Game loop: helpers                                                      *)
(***************************************************************************)
ObstacleSize(obstacle) ==
  IF obstacle.isBoss THEN BOSS_SIZE
  ELSE IF obstacle.size = "small" THEN OBSTACLE_SIZE_SMALL
  ELSE IF obstacle.size = "medium" THEN OBSTACLE_SIZE_MEDIUM
  ELSE OBSTACLE_SIZE_LARGE

\* the score of a destroyed obstacle taken off instead of added
ScoreValuePenalty(obstacle) ==
  IF obstacle.size = "small" THEN -SCORE_SMALL
  ELSE IF obstacle.size = "medium" THEN -SCORE_MEDIUM
  ELSE -SCORE_LARGE

ScoreValue(obstacle) ==
  IF obstacle.size = "small" THEN SCORE_SMALL
  ELSE IF obstacle.size = "medium" THEN SCORE_MEDIUM
  ELSE SCORE_LARGE

\* 1 + (level - 1) * 0.15, in percent
LevelMultiplier(lvl) == 100 + (lvl - 1) * 15

\* the part of the component a call of triggerGameOver may write
GameOverState(gs, reason, expl, timer, inputs) ==
  [gameState |-> gs, gameOverReason |-> reason, explosions |-> expl,
   explosionTimerRef |-> timer, inputs |-> inputs]

\* the guard reads gameStateRef, which still holds the phase of the last render
triggerGameOver(st, reason) ==
  IF gameStateRef = "exploding" \/ gameStateRef = "gameover"
  THEN st
  ELSE GameOverState("exploding", reason,
                     Append(st.explosions, IF reason = "obstacle" THEN "bomb" ELSE "player"),
                     "pending",
                     Inputs(ZeroVector, FALSE, 0))

newBullet ==
  LET forwardVector == angleToForwardVector(facingAngle)
  IN [position |-> offsetPosition(playerPos, forwardVector, BULLET_SPAWN_OFFSET,
                                  playfieldSize.width, playfieldSize.height),
      velocityPercent |-> pixelVelocityToPercent(BULLET_SPEED, forwardVector,
                                  playfieldSize.width, playfieldSize.height, BULLET_FPS),
      angle |-> facingAngle]

\* spawnBullet called count times in one tick
spawnBullet(prev, count) ==
  IF playfieldSize.width = 0 \/ playfieldSize.height = 0 \/ gameStateRef # "playing"
  THEN prev
  ELSE prev \o [i \in 1..count |-> newBullet]

\* spawnObstacle called count times in one tick with the given random draws
spawnObstacle(prev, count, size, spawnX, angle) ==
  IF playfieldSize.width = 0 \/ playfieldSize.height = 0
  THEN prev
  ELSE LET speed == (OBSTACLE_SPEED * 1000 * LevelMultiplier(level)) \div 100
           newObstacle == [position |-> [x |-> spawnX, y |-> -5000],
                           velocity |-> [x |-> (Sin1000(angle) * speed) \div 1000,
                                         y |-> (Cos1000(angle) * speed) \div 1000],
                           size |-> size,
                           isBoss |-> FALSE]
       IN prev \o [i \in 1..count |-> newObstacle]

HasBoss(obs) == \E i \in 1..Len(obs) : obs[i].isBoss

\* spawnBoss: TRUE when the boss is appended
BossSpawns(prevObstacles) ==
  /\ playfieldSize.width # 0 /\ playfieldSize.height # 0
  /\ ~bossActive
  /\ ~bossSpawnedThisAttemptRef
  /\ ~HasBoss(prevObstacles)

\* the boss spawn check of the game loop without its guards and those of
\* spawnBoss: the boss is spawned in every tick past the threshold
bossSpawnCheckUnguarded(prevObstacles) ==
  destroyedThisLevel >= getBossSpawnThreshold(level)

\* the boss spawn check of the game loop, with the call of spawnBoss:
\* bossActiveRef and destroyedThisLevelRef hold the values of the last render
bossSpawnCheck(prevObstacles) ==
  /\ destroyedThisLevel >= getBossSpawnThreshold(level)
  /\ ~bossActive
  /\ ~bossSpawnedThisAttemptRef
  /\ BossSpawns(prevObstacles)

\* the obstacle spawn gate of the game loop without its condition
obstacleSpawnGateOpen == TRUE

\* the obstacle spawn gate of the game loop: if (!bossActiveRef.current)
obstacleSpawnGate == ~bossActive

bossObstacle(angle) ==
  LET speed == (OBSTACLE_SPEED * 600 * LevelMultiplier(level)) \div 100
  IN [position |-> [x |-> 50000, y |-> -10000],
      velocity |-> [x |-> (Sin1000(angle) * speed) \div 1000,
                    y |-> (Cos1000(angle) * speed) \div 1000],
      size |-> "large",
      isBoss |-> TRUE]

\* setPlayerPos updater of the game loop
movePlayer(prev, joystickVector, deltaTime) ==
  IF joystickVector.magnitude > 0
  THEN LET p == processJoystickInput(joystickVector)
           speed == (BASE_MOVEMENT_SPEED * p.speedFactor * sensitivity) \div 1000
           velocityX == (p.direction.x * speed) \div 1000
           velocityY == (p.direction.y * speed) \div 1000
           deltaX == (((velocityX * deltaTime) \div 1000) * 100) \div playfieldSize.width
           deltaY == (((velocityY * deltaTime) \div 1000) * 100) \div playfieldSize.height
       IN clampPosition([x |-> prev.x + deltaX, y |-> prev.y + deltaY],
                        playfieldSize.width, playfieldSize.height, JET_SIZE)
  ELSE prev

\* first setBullets updater of the game loop
\* moveBullets that aims every bullet in flight where the jet faces now
moveBulletsAimedAnew(prevBullets) ==
  LET aimed == [i \in 1..Len(prevBullets) |->
                  [prevBullets[i] EXCEPT !.velocityPercent = newBullet.velocityPercent,
                                         !.angle = facingAngle]]
      moved == [i \in 1..Len(aimed) |->
                  [aimed[i] EXCEPT
                     !.position = [x |-> @.x + aimed[i].velocityPercent.x,
                                   y |-> @.y + aimed[i].velocityPercent.y]]]
      Inside(bullet) == ~isOutOfBounds(bullet.position, playfieldSize.width,
                                       playfieldSize.height, BULLET_SIZE)
  IN SelectSeq(moved, Inside)

moveBullets(prevBullets) ==
  LET moved == [i \in 1..Len(prevBullets) |->
                  [prevBullets[i] EXCEPT
                     !.position = [x |-> @.x + prevBullets[i].velocityPercent.x,
                                   y |-> @.y + prevBullets[i].velocityPercent.y]]]
      Inside(bullet) == ~isOutOfBounds(bullet.position, playfieldSize.width,
                                       playfieldSize.height, BULLET_SIZE)
  IN SelectSeq(moved, Inside)

moveObstacle(obstacle, deltaTime) ==
  LET deltaX == (((obstacle.velocity.x * deltaTime) \div 1000) * 100) \div playfieldSize.width
      deltaY == (((obstacle.velocity.y * deltaTime) \div 1000) * 100) \div playfieldSize.height
      newPos == [x |-> obstacle.position.x + deltaX, y |-> obstacle.position.y + deltaY]
      obstacleSize == ObstacleSize(obstacle)
  IN IF isAtBorder(newPos, playfieldSize.width, playfieldSize.height, obstacleSize)
     THEN LET result == reflectAtBounds(newPos, obstacle.velocity, playfieldSize.width,
                                        playfieldSize.height, obstacleSize)
          IN [obstacle EXCEPT !.position = result.position, !.velocity = result.velocity]
     ELSE [obstacle EXCEPT !.position = newPos]

\* body of the inner loops of the collision solver for the pair (i, j)
resolvePair(obs, i, j) ==
  LET result == resolveObstacleCollision(obs[i].position, obs[i].velocity, ObstacleSize(obs[i]),
                                         obs[j].position, obs[j].velocity, ObstacleSize(obs[j]),
                                         playfieldSize.width, playfieldSize.height)
  IN IF result.collided
     THEN [obs EXCEPT ![i] = [@ EXCEPT !.position = result.newPosition1,
                                       !.velocity = result.newVelocity1],
                      ![j] = [@ EXCEPT !.position = result.newPosition2,
                                       !.velocity = result.newVelocity2]]
     ELSE obs

\* for (i ...) for (j = i + 1 ...), continued from the pair (i, j)
RECURSIVE solverPass(_, _, _)
solverPass(obs, i, j) ==
  IF i > Len(obs) THEN obs
  ELSE IF j > Len(obs) THEN solverPass(obs, i + 1, i + 2)
  ELSE solverPass(resolvePair(obs, i, j), i, j + 1)

RECURSIVE solverPasses(_, _)
solverPasses(obs, pass) ==
  IF pass >= COLLISION_SOLVER_PASSES THEN obs
  ELSE solverPasses(solverPass(obs, 1, 2), pass + 1)

\* first setObstacles updater of the game loop
updateObstacles(prevObstacles, deltaTime) ==
  LET moved == [i \in 1..Len(prevObstacles) |-> moveObstacle(prevObstacles[i], deltaTime)]
      solved == solverPasses(moved, 0)
      Kept(obstacle) ==
        obstacle.isBoss \/ ~isOutOfBounds(obstacle.position, playfieldSize.width,
                                          playfieldSize.height, ObstacleSize(obstacle))
  IN SelectSeq(solved, Kept)

\* what the bullet-obstacle pass accumulates.  bulletsToRemove and
\* obstaclesToRemove are the two local sets (indices stand for ids); the other
\* fields are the updates the pass enqueues on bossHits, score,
\* destroyedThisLevel, bossActive and gameState.
HitState(bRemove, oRemove, hits, sc, destroyed, active, complete) ==
  [bulletsToRemove |-> bRemove, obstaclesToRemove |-> oRemove, bossHits |-> hits,
   score |-> sc, destroyedThisLevel |-> destroyed, bossActive |-> active,
   levelcomplete |-> complete]

bulletHits(bullet, obstacle) ==
  LET reach == (ObstacleSize(obstacle) + BULLET_SIZE) * 10
  IN DistSq10(obstacle.position, bullet.position, playfieldSize.width, playfieldSize.height)
       < reach * reach

\* the body of the loops with a regular obstacle hit that completes the level
hitPairCompletesOnKill(h, bs, os, bi, oj) ==
  IF bi \in h.bulletsToRemove \/ oj \in h.obstaclesToRemove THEN h
  ELSE IF ~bulletHits(bs[bi], os[oj]) THEN h
  ELSE IF os[oj].isBoss
  THEN LET newHits == h.bossHits + 1
       IN IF newHits >= BOSS_MAX_HITS
          THEN HitState(h.bulletsToRemove \cup {bi}, h.obstaclesToRemove, newHits,
                        h.score + SCORE_BOSS, h.destroyedThisLevel, FALSE, TRUE)
          ELSE [h EXCEPT !.bulletsToRemove = @ \cup {bi}, !.bossHits = newHits]
  ELSE [h EXCEPT !.bulletsToRemove = @ \cup {bi},
                 !.obstaclesToRemove = @ \cup {oj},
                 !.score = @ + ScoreValue(os[oj]),
                 !.destroyedThisLevel = @ + 1,
                 !.levelcomplete = TRUE]

\* body of prevBullets.forEach / prevObstacles.forEach for bullet bi, obstacle oj.
\* The setBossHits updater is queued, not run, while the loops run: the
\* obstaclesToRemove.add of a defeated boss comes after the loops and after the
\* filter that closes them.
hitPair(h, bs, os, bi, oj) ==
  IF bi \in h.bulletsToRemove \/ oj \in h.obstaclesToRemove THEN h
  ELSE IF ~bulletHits(bs[bi], os[oj]) THEN h
  ELSE IF os[oj].isBoss
  THEN LET newHits == h.bossHits + 1
       IN IF newHits >= BOSS_MAX_HITS
          THEN HitState(h.bulletsToRemove \cup {bi}, h.obstaclesToRemove, newHits,
                        h.score + SCORE_BOSS, h.destroyedThisLevel, FALSE, TRUE)
          ELSE [h EXCEPT !.bulletsToRemove = @ \cup {bi}, !.bossHits = newHits]
  ELSE [h EXCEPT !.bulletsToRemove = @ \cup {bi},
                 !.obstaclesToRemove = @ \cup {oj},
                 !.score = @ + ScoreValue(os[oj]),
                 !.destroyedThisLevel = @ + 1]

RECURSIVE hitLoop(_, _, _, _, _)
hitLoop(h, bs, os, bi, oj) ==
  IF bi > Len(bs) THEN h
  ELSE IF oj > Len(os) THEN hitLoop(h, bs, os, bi + 1, 1)
  ELSE hitLoop(hitPair(h, bs, os, bi, oj), bs, os, bi, oj + 1)

RECURSIVE Without(_, _, _)
Without(seq, remove, i) ==
  IF i > Len(seq) THEN << >>
  ELSE (IF i \in remove THEN << >> ELSE << seq[i] >>) \o Without(seq, remove, i + 1)

\* the setObstacles updater of the player-obstacle check
playerHit(prevObstacles) ==
  \E i \in 1..Len(prevObstacles) :
    isFullHit(playerPos, JET_SIZE, prevObstacles[i].position, ObstacleSize(prevObstacles[i]),
              playfieldSize.width, playfieldSize.height)

(***************************************************************************)
(* Game loop: one requestAnimationFrame callback and the render it causes  *)
(*                                                                         *)
(* The callback runs its straight-line code (refs, guards, the border      *)
(* check) and queues its state updates.  React runs the queued updater     *)
(* functions while rendering, hook by hook in declaration order, and an    *)
(* update queued by an updater is applied after the updates already queued *)
(* on that hook.  So the order of the writes of one tick is:               *)
(*   callback:  firing, spawn decisions, joystick, border check            *)
(*   bullets:   append, move, (bullet-obstacle pass queued on obstacles)   *)
(*   obstacles: append, boss, move and solve, player check, bullet pass    *)
(*   bossHits:  the queued hits, each possibly completing the level        *)
(*   timeRemaining: countdown, possibly the timeExpired game over          *)
(* React may also run the first updater of a callback at once (when the    *)
(* component has no pending work): eager chooses between the two for the   *)
(* countdown updater, the first state update of the tick.                  *)
(***************************************************************************)
\* the writes of one tick, as a record of the new values; movedBullets,
\* movedObstacles and hit are the lists the collision checks of the tick read
\* and what the bullet-obstacle pass found in them
TickResult(st, time, pos, bs, os, h, spawnAcc, bossSpawned) ==
  [st |-> st, timeRemaining |-> time, playerPos |-> pos, bullets |-> bs,
   movedBullets |-> bs, movedObstacles |-> os, hit |-> h,
   obstacles |-> Without(os, h.obstaclesToRemove, 1), score |-> h.score,
   destroyedThisLevel |-> h.destroyedThisLevel, bossActive |-> h.bossActive,
   bossHits |-> h.bossHits, obstacleSpawnAccumulatorRef |-> spawnAcc,
   bossSpawnedThisAttemptRef |-> bossSpawned]

\* render, hooks bossHits and timeRemaining: h holds the queued hits; the
\* countdown updater runs last unless it ran in the callback
renderCountdown(st, h, expiredNow, time, pos, bs, os, spawnAcc, bossSpawned) ==
  LET st5 == IF h.levelcomplete THEN [st EXCEPT !.gameState = "levelcomplete"] ELSE st
      st6 == IF expiredNow THEN triggerGameOver(st5, "timeExpired") ELSE st5
  IN TickResult(st6, time, pos, bs, os, h, spawnAcc, bossSpawned)

\* render, hooks bullets and obstacles: bs and os are the lists after the
\* append and move updaters; the player check runs before the bullet pass
renderLists(st, bs, os, boss, expiredNow, time, pos, spawnAcc) ==
  LET st4 == IF playerHit(os) THEN triggerGameOver(st, "obstacle") ELSE st
  IN renderCountdown(st4,
                     hitLoop(HitState({}, {}, IF boss THEN 0 ELSE bossHits, score,
                                      destroyedThisLevel, IF boss THEN TRUE ELSE bossActive,
                                      FALSE),
                             bs, os, 1, 1),
                     expiredNow, time, pos, bs, os, spawnAcc,
                     bossSpawnedThisAttemptRef \/ boss)

\* the callback.  deltaTime is the clamped frame time; size, spawnX, angle
\* and bossAngle are the Math.random() draws of the spawns.  With deltaTime <=
\* MAX_DELTA_TIME at most one obstacle is spawned per tick, so one draw of each
\* kind suffices.
tick(deltaTime, eager, size, spawnX, angle, bossAngle) ==
  LET newTime == Max(0, timeRemaining - deltaTime)
      expired == newTime = 0 /\ timeRemaining > 0
      st0 == GameOverState(gameState, gameOverReason, explosions, explosionTimerRef,
                           Inputs(joystickVectorRef, isFiringRef, fireAccumulatorRef))
      \* countdown updater run at once
      st1 == IF expired /\ eager THEN triggerGameOver(st0, "timeExpired") ELSE st0
      \* continuous firing
      firing == st1.inputs.isFiringRef
      fireAcc == st1.inputs.fireAccumulatorRef + deltaTime
      bullets1 == IF firing THEN spawnBullet(bullets, fireAcc \div FIRE_COOLDOWN) ELSE bullets
      st2 == IF firing THEN [st1 EXCEPT !.inputs.fireAccumulatorRef = fireAcc % FIRE_COOLDOWN] ELSE st1
      \* obstacle spawning
      spawnAcc == obstacleSpawnAccumulatorRef + deltaTime
      obstacles1 == IF obstacleSpawnGate
                    THEN spawnObstacle(obstacles, spawnAcc \div OBSTACLE_SPAWN_INTERVAL,
                                       size, spawnX, angle)
                    ELSE obstacles
      spawnAcc1 == IF obstacleSpawnGate THEN spawnAcc % OBSTACLE_SPAWN_INTERVAL
                   ELSE obstacleSpawnAccumulatorRef
      \* boss spawning
      boss == bossSpawnCheck(obstacles1)
      obstacles2 == IF boss THEN Append(obstacles1, bossObstacle(bossAngle)) ELSE obstacles1
      \* joystick, read in the callback
      playerPos1 == movePlayer(playerPos, st2.inputs.joystickVectorRef, deltaTime)
      \* border check, in the callback, with playerPosRef
      st3 == IF isAtBorder(playerPos, playfieldSize.width, playfieldSize.height, JET_SIZE)
             THEN triggerGameOver(st2, "border") ELSE st2
  IN renderLists(st3, moveBullets(bullets1), updateObstacles(obstacles2, deltaTime), boss,
                 expired /\ ~eager, newTime, playerPos1, spawnAcc1)

gameLoop(deltaTime, eager, size, spawnX, angle, bossAngle) ==
  /\ animationFrameRef
  /\ \E r \in {tick(deltaTime, eager, size, spawnX, angle, bossAngle)} :
       /\ gameOverReason' = r.st.gameOverReason
       /\ explosions' = r.st.explosions
       /\ explosionTimerRef' = r.st.explosionTimerRef
       /\ playerPos' = r.playerPos
       /\ bullets' = r.bullets
       /\ obstacles' = r.obstacles
       /\ score' = r.score
       /\ destroyedThisLevel' = r.destroyedThisLevel
       /\ bossActive' = r.bossActive
       /\ bossHits' = r.bossHits
       /\ obstacleSpawnAccumulatorRef' = r.obstacleSpawnAccumulatorRef
       /\ bossSpawnedThisAttemptRef' = r.bossSpawnedThisAttemptRef
       /\ Render(r.st.gameState, level, r.timeRemaining, r.st.inputs)
  /\ UNCHANGED << playfieldSize, facingAngle, sensitivity, storedSensitivity, orphanTimers, controlEvents >>

\* Math.random() is only drawn in a tick that spawns, and the moment the
\* countdown updater runs only shows in the tick that reaches zero
SpawnsNow == ~bossActive /\ obstacleSpawnAccumulatorRef + MAX_DELTA_TIME >= OBSTACLE_SPAWN_INTERVAL
ExpiresNow == timeRemaining > 0 /\ timeRemaining <= MAX_DELTA_TIME
Only(draws) == {CHOOSE d \in draws : TRUE}

\* Math.min((currentTime - lastTime) / 1000, MAX_DELTA_TIME), in ms
DeltaTimes == {Min(rawDeltaTime, MAX_DELTA_TIME) : rawDeltaTime \in ElapsedChoices}

\* a finger can only press what is released and release what is pressed
Next ==
  \/ startGame
  \/ pauseGame /\ gameState = "playing"
  \/ resumeGame
  \/ nextLevel
  \/ explosionTimeout
  \/ \E vector \in JoystickInputs : handleJoystickMove(vector) /\ joystickVectorRef # vector
  \/ handleJoystickNeutral /\ joystickVectorRef # ZeroVector
  \/ handleFireStart /\ ~isFiringRef /\ FireAreaActive
  \/ handleFireEnd /\ isFiringRef
  \/ \E deltaTime \in DeltaTimes,
        eager \in IF ExpiresNow THEN BOOLEAN ELSE {FALSE},
        size \in IF SpawnsNow THEN SizeDraws ELSE Only(SizeDraws),
        spawnX \in IF SpawnsNow THEN SpawnXDraws ELSE Only(SpawnXDraws),
        angle \in IF SpawnsNow THEN AngleDraws ELSE Only(AngleDraws),
        bossAngle \in BossAngleDraws :
       /\ gameLoop(deltaTime, eager, size, spawnX, angle, bossAngle)
       /\ Len(bullets') <= MaxBullets
       /\ Len(obstacles') <= MaxObstacles

Spec == Init /\ [][Next]_vars

(***************************************************************************)
(* frontend/src/game/GameScreen.tsx: the variant of the screen without     *)
(* triggerGameOver.  It has no gameOverReason, gameStateRef or             *)
(* bossSpawnedThisAttemptRef (these variables keep their initial values),  *)
(* its handlers are unguarded, each lethal cause arms its own timer, and   *)
(* the cleanup of its game loop effect clears the timer held by            *)
(* explosionTimerRef.                                                      *)
(***************************************************************************)
FIRE_COOLDOWN_GS == 200
OBSTACLES_PER_LEVEL == 5
OUT_OF_BOUNDS_HALF_SIZE == 50

\* one more touch in the running game
ControlGS == controlEvents < MaxControlEventsGS /\ controlEvents' = controlEvents + 1

\* cleanup of the game loop effect, run when a dependency changed after a
\* render in playing: clearTimeout(explosionTimerRef.current)
LoopCleanupGS(gsNew, lvlNew, destroyedNew, bossActiveNew, timer) ==
  IF /\ gameState = "playing"
     /\ << gsNew, lvlNew, destroyedNew, bossActiveNew >> #
          << gameState, level, destroyedThisLevel, bossActive >>
     /\ timer = "pending"
  THEN "cleared"
  ELSE timer

\* useEffect [gameState]: isFiringRef and the joystick are reset, the fire
\* accumulator is not
InputResetEffectGS(gsOld, gsNew, inputs) ==
  IF gsNew # gsOld /\ gsNew # "playing"
  THEN [inputs EXCEPT !.joystickVectorRef = ZeroVector, !.isFiringRef = FALSE]
  ELSE inputs

RenderGS(gsNew, lvlNew, time, inputs, timer) ==
  LET reset == InputResetEffectGS(gameState, gsNew, inputs)
  IN /\ gameState' = gsNew
     /\ level' = lvlNew
     /\ timeRemaining' = TimerInitEffect(gameState, level, gsNew, lvlNew, time)
     /\ joystickVectorRef' = reset.joystickVectorRef
     /\ isFiringRef' = reset.isFiringRef
     /\ fireAccumulatorRef' = reset.fireAccumulatorRef
     /\ animationFrameRef' = LoopEffect(gsNew)
     /\ explosionTimerRef' = LoopCleanupGS(gsNew, lvlNew, destroyedThisLevel', bossActive', timer)
     /\ UNCHANGED << gameStateRef, gameOverReason, bossSpawnedThisAttemptRef >>

startGameGS ==
  /\ gameState \in {"idle", "gameover"}
  /\ playerPos' = StartPos
  /\ facingAngle' = 0
  /\ bullets' = << >>
  /\ obstacles' = << >>
  /\ explosions' = << >>
  /\ score' = 0
  /\ destroyedThisLevel' = 0
  /\ bossActive' = FALSE
  /\ bossHits' = 0
  /\ obstacleSpawnAccumulatorRef' = 0
  /\ controlEvents' = 0
  /\ RenderGS("playing", 1, timeRemaining, Inputs(ZeroVector, FALSE, 0), explosionTimerRef)
  /\ UNCHANGED << playfieldSize, sensitivity, storedSensitivity, orphanTimers >>

GameFrameGS ==
  << playerPos, bullets, obstacles, explosions, playfieldSize, facingAngle, score,
     destroyedThisLevel, bossActive, bossHits, sensitivity, storedSensitivity, orphanTimers,
     obstacleSpawnAccumulatorRef >>

pauseGameGS ==
  /\ gameState \in {"playing", "paused"}
  /\ ControlGS
  /\ UNCHANGED GameFrameGS
  /\ RenderGS("paused", level, timeRemaining,
              Inputs(joystickVectorRef, isFiringRef, fireAccumulatorRef), explosionTimerRef)

resumeGameGS ==
  /\ gameState = "paused"
  /\ UNCHANGED << GameFrameGS, controlEvents >>
  /\ RenderGS("playing", level, timeRemaining,
              Inputs(joystickVectorRef, isFiringRef, fireAccumulatorRef), explosionTimerRef)

\* a timer that was armed and not cleared fires: setGameState('gameover').
\* The timer held by explosionTimerRef is cleared by the cleanup that follows
\* the render arming it, so only a timer whose id was overwritten fires.
explosionTimeoutGS ==
  /\ orphanTimers > 0
  /\ orphanTimers' = orphanTimers - 1
  /\ UNCHANGED << playerPos, bullets, obstacles, explosions, playfieldSize, facingAngle,
                  score, destroyedThisLevel, bossActive, bossHits, sensitivity, storedSensitivity,
                  obstacleSpawnAccumulatorRef, controlEvents >>
  /\ RenderGS("gameover", level, timeRemaining,
              Inputs(joystickVectorRef, isFiringRef, fireAccumulatorRef), explosionTimerRef)

InputFrameGS ==
  << gameState, gameOverReason, playerPos, bullets, obstacles, explosions,
     playfieldSize, score, level, destroyedThisLevel, bossActive, bossHits,
     timeRemaining, sensitivity, storedSensitivity, explosionTimerRef, orphanTimers, animationFrameRef,
     obstacleSpawnAccumulatorRef, bossSpawnedThisAttemptRef, gameStateRef,
     fireAccumulatorRef >>

handleJoystickMoveGS(vector) ==
  /\ ControlGS
  /\ joystickVectorRef' = vector
  /\ facingAngle' = IF vector.magnitude > FACING_THRESHOLD
                    THEN Atan2Deg(vector.x, -vector.y)
                    ELSE facingAngle
  /\ UNCHANGED isFiringRef
  /\ UNCHANGED InputFrameGS

handleJoystickNeutralGS ==
  /\ joystickVectorRef' = ZeroVector
  /\ UNCHANGED << facingAngle, isFiringRef, controlEvents >>
  /\ UNCHANGED InputFrameGS

handleFireStartGS ==
  /\ ControlGS
  /\ isFiringRef' = TRUE
  /\ UNCHANGED << facingAngle, joystickVectorRef >>
  /\ UNCHANGED InputFrameGS

handleFireEndGS ==
  /\ isFiringRef' = FALSE
  /\ UNCHANGED << facingAngle, joystickVectorRef, controlEvents >>
  /\ UNCHANGED InputFrameGS

\* a lethal cause of this variant: phase, explosion, and a new timer whose
\* id overwrites the one held by explosionTimerRef
ExplodeGS(st, variant) ==
  [gameState |-> "exploding",
   explosions |-> Append(st.explosions, variant),
   explosionTimerRef |-> "pending",
   orphanTimers |-> st.orphanTimers + IF st.explosionTimerRef = "pending" THEN 1 ELSE 0]

spawnBulletGS(prev, count) ==
  IF playfieldSize.width = 0 \/ playfieldSize.height = 0
  THEN prev
  ELSE prev \o [i \in 1..count |-> newBullet]

spawnObstacleGS(prev, size, spawnX, baseVx) ==
  IF playfieldSize.width = 0 \/ playfieldSize.height = 0
  THEN prev
  ELSE Append(prev, [position |-> [x |-> spawnX, y |-> -5000],
                     velocity |-> [x |-> (baseVx * 1000 * LevelMultiplier(level)) \div 100,
                                   y |-> (OBSTACLE_SPEED * 1000 * LevelMultiplier(level)) \div 100],
                     size |-> size,
                     isBoss |-> FALSE])

bossObstacleGS ==
  [position |-> [x |-> 50000, y |-> -10000],
   velocity |-> [x |-> 0, y |-> (OBSTACLE_SPEED * 600 * LevelMultiplier(level)) \div 100],
   size |-> "large",
   isBoss |-> TRUE]

\* setPlayerPos updater: the position before clamping decides the border death
newPosGS(prev, joystickVector, deltaTime) ==
  LET movement == processJoystickInput(joystickVector)
      effectiveSpeed == (BASE_MOVEMENT_SPEED * movement.speedFactor * sensitivity) \div 1000
      moveDistance == (effectiveSpeed * deltaTime) \div 1000
      dx == (((movement.direction.x * moveDistance) \div 1000) * 100) \div playfieldSize.width
      dy == (((movement.direction.y * moveDistance) \div 1000) * 100) \div playfieldSize.height
  IN [x |-> prev.x + dx, y |-> prev.y + dy]

MovesGS(joystickVector) ==
  processJoystickInput(joystickVector).speedFactor > 0 /\ playfieldSize.width > 0

\* setObstacles updater: every obstacle moves, then the ones out of bounds
\* for half size 50 are dropped.  The zigzag redraw and the pairwise
\* resolution act on obstacles that survived an earlier frame; gameLoopGS is
\* restricted to the frames after which no obstacle is left.
updateObstaclesGS(prev, deltaTime) ==
  LET moved == [i \in 1..Len(prev) |->
                  [prev[i] EXCEPT
                     !.position =
                        [x |-> @.x + (((prev[i].velocity.x * deltaTime) \div 1000) * 100)
                                       \div playfieldSize.width,
                         y |-> @.y + (((prev[i].velocity.y * deltaTime) \div 1000) * 100)
                                       \div playfieldSize.height]]]
      Inside(obstacle) == ~isOutOfBounds(obstacle.position, playfieldSize.width,
                                         playfieldSize.height, OUT_OF_BOUNDS_HALF_SIZE)
  IN SelectSeq(moved, Inside)

tickGS(deltaTime, eager, size, spawnX, baseVx) ==
  LET newTime == Max(0, timeRemaining - deltaTime)
      \* the loop only runs with the closure's gameState = 'playing'
      expired == newTime = 0
      st0 == [gameState |-> gameState, explosions |-> explosions,
              explosionTimerRef |-> explosionTimerRef, orphanTimers |-> orphanTimers]
      st1 == IF expired /\ eager THEN ExplodeGS(st0, "player") ELSE st0
      \* continuous firing; the performance.now() throttle passes, ElapsedChoices
      \* holding no frame shorter than MAX_DELTA_TIME
      fireAcc == fireAccumulatorRef + deltaTime
      bullets1 == IF isFiringRef THEN spawnBulletGS(bullets, fireAcc \div FIRE_COOLDOWN_GS)
                  ELSE bullets
      fireAcc1 == IF isFiringRef THEN fireAcc % FIRE_COOLDOWN_GS ELSE fireAccumulatorRef
      \* player
      moves == MovesGS(joystickVectorRef)
      newPos == newPosGS(playerPos, joystickVectorRef, deltaTime)
      st2 == IF moves /\ isAtBorder(newPos, playfieldSize.width, playfieldSize.height, JET_SIZE)
             THEN ExplodeGS(st1, "player") ELSE st1
      \* spawns
      spawnAcc == obstacleSpawnAccumulatorRef + deltaTime
      spawns == ~bossActive /\ spawnAcc >= OBSTACLE_SPAWN_INTERVAL
      obstacles1 == IF spawns THEN spawnObstacleGS(obstacles, size, spawnX, baseVx) ELSE obstacles
      boss == /\ ~bossActive
              /\ destroyedThisLevel >= OBSTACLES_PER_LEVEL * level
              /\ playfieldSize.width # 0 /\ playfieldSize.height # 0
      obstacles2 == IF boss THEN Append(obstacles1, bossObstacleGS) ELSE obstacles1
      st3 == IF expired /\ ~eager THEN ExplodeGS(st2, "player") ELSE st2
  IN [st |-> st3, timeRemaining |-> newTime,
      playerPos |-> IF moves
                    THEN clampPosition(newPos, playfieldSize.width, playfieldSize.height, JET_SIZE)
                    ELSE playerPos,
      bullets |-> moveBullets(bullets1),
      obstacles |-> updateObstaclesGS(obstacles2, deltaTime),
      fireAccumulatorRef |-> fireAcc1,
      obstacleSpawnAccumulatorRef |-> IF bossActive THEN obstacleSpawnAccumulatorRef
                                      ELSE IF spawns THEN 0 ELSE spawnAcc,
      bossActive |-> bossActive \/ boss,
      bossHits |-> IF boss THEN 0 ELSE bossHits]

gameLoopGS(deltaTime, eager, size, spawnX, baseVx) ==
  /\ animationFrameRef
  /\ \E r \in {tickGS(deltaTime, eager, size, spawnX, baseVx)} :
       /\ r.obstacles = << >>
       /\ explosions' = r.st.explosions
       /\ orphanTimers' = r.st.orphanTimers
       /\ playerPos' = r.playerPos
       /\ bullets' = r.bullets
       /\ obstacles' = r.obstacles
       /\ obstacleSpawnAccumulatorRef' = r.obstacleSpawnAccumulatorRef
       /\ bossActive' = r.bossActive
       /\ bossHits' = r.bossHits
       /\ UNCHANGED << destroyedThisLevel, score >>
       /\ RenderGS(r.st.gameState, level, r.timeRemaining,
                   Inputs(joystickVectorRef, isFiringRef, r.fireAccumulatorRef),
                   r.st.explosionTimerRef)
  /\ UNCHANGED << playfieldSize, facingAngle, sensitivity, storedSensitivity, controlEvents >>

NextGS ==
  \/ startGameGS
  \/ pauseGameGS /\ gameState = "playing"
  \/ resumeGameGS
  \/ explosionTimeoutGS
  \/ \E vector \in JoystickInputs : handleJoystickMoveGS(vector) /\ joystickVectorRef # vector
  \/ handleJoystickNeutralGS /\ joystickVectorRef # ZeroVector
  \/ handleFireStartGS /\ ~isFiringRef
  \/ handleFireEndGS /\ isFiringRef
  \/ \E deltaTime \in DeltaTimes,
        eager \in IF ExpiresNow THEN BOOLEAN ELSE {FALSE},
        size \in IF SpawnsNow THEN SizeDraws ELSE Only(SizeDraws),
        spawnX \in IF SpawnsNow THEN SpawnXDraws ELSE Only(SpawnXDraws),
        baseVx \in BaseVxDraws :
       /\ gameLoopGS(deltaTime, eager, size, spawnX, baseVx)
       /\ Len(bullets') <= MaxBullets

\* the browser fires a timer that stays armed
SpecGS == Init /\ [][NextGS]_vars /\ WF_vars(explosionTimeoutGS)

(***************************************************************************)
(* Properties of the game phase                                            *)
(***************************************************************************)
LegalPhaseChanges ==
  { <<"idle", "playing">>, <<"playing", "paused">>, <<"paused", "playing">>,
    <<"playing", "exploding">>, <<"exploding", "gameover">>,
    <<"playing", "levelcomplete">>, <<"levelcomplete", "playing">>,
    <<"gameover", "playing">> }

\* C1: every change of the game phase is one of idle->playing,
\* playing->paused, paused->playing, playing->exploding, exploding->gameover,
\* playing->levelcomplete, levelcomplete->playing, gameover->playing.
C1_OnlyLegalPhaseChanges ==
  [][gameState' # gameState => <<gameState, gameState'>> \in LegalPhaseChanges]_vars

\* C2: when several lethal causes are raised for one life, also within one
\* tick, only the first call of triggerGameOver takes effect: one terminal
\* explosion is added, the recorded reason is the reason of that first call
\* (the obstacle cause adds the bomb explosion, the other causes the player
\* explosion), and one timer is pending.
C2_FirstLethalCauseWins ==
  gameState \in {"exploding", "gameover"} =>
    /\ Len(explosions) = 1
    /\ (explosions[1] = "bomb") <=> (gameOverReason = "obstacle")
    /\ gameState = "exploding" => explosionTimerRef = "pending"
    /\ orphanTimers = 0

\* C3: in exploding and gameover the reason is one of border, obstacle,
\* timeExpired and stays what it is until the next start; in idle, playing,
\* paused and levelcomplete there is no reason.
C3_ReasonMatchesPhase ==
  /\ [](gameState \in {"exploding", "gameover"} => gameOverReason \in GameOverReasons)
  /\ [](gameState \in {"idle", "playing", "paused", "levelcomplete"} =>
          gameOverReason = NoReason)
  /\ [][(gameState \in {"exploding", "gameover"} /\ gameState' \in {"exploding", "gameover"})
          => (gameOverReason' = gameOverReason)]_vars

\* C5: the phase never changes from playing or paused directly to gameover,
\* and gameover is only entered from the exploding phase of the same game.
C5_GameoverOnlyThroughExploding ==
  [][/\ gameState \in {"playing", "paused"} => gameState' # "gameover"
     /\ gameState' = "gameover" /\ gameState # "gameover" => gameState = "exploding"]_vars

(***************************************************************************)
(* Properties of the countdown                                             *)
(***************************************************************************)
EntersNewAttempt ==
  gameState \in {"idle", "gameover", "levelcomplete"} /\ gameState' = "playing"

\* C7: a tick takes min(elapsed, 100 ms) off timeRemaining, not below zero;
\* 0 <= timeRemaining <= duration of the level; and timeRemaining never
\* grows within one attempt at a level.
C7_CountdownOnlyDecreases ==
  /\ [](0 <= timeRemaining /\ timeRemaining <= getLevelDuration(level) * MsPerSecond)
  /\ [][gameState = "playing" /\ timeRemaining' # timeRemaining =>
          timeRemaining' \in {Max(0, timeRemaining - deltaTime) : deltaTime \in DeltaTimes}]_vars
  /\ [][~EntersNewAttempt => timeRemaining' <= timeRemaining]_vars

\* C8: the countdown is set to 30 + 5 * (level - 1) seconds when playing is
\* entered for a new game or for the next level, and at no other step.
C8_CountdownInitialisedOnlyOnNewAttempt ==
  [][/\ EntersNewAttempt => timeRemaining' = (30 + 5 * (level' - 1)) * MsPerSecond
     /\ timeRemaining' > timeRemaining => EntersNewAttempt]_vars

\* C9: pause followed by resume gives a playing state with the timeRemaining,
\* score, level, destroyedThisLevel, bossActive, bossHits, bullets and
\* obstacles of the moment of the pause.
C9_PauseResumePreserves ==
  [][gameState' = "paused" \/ gameState = "paused" =>
       UNCHANGED << timeRemaining, score, level, destroyedThisLevel, bossActive,
                    bossHits, bullets, obstacles >>]_vars

C4_ExplodingLeadsToGameover ==
  (gameState = "exploding") ~> (gameState = "gameover")

\* C6: the tick that takes the countdown to 0 while playing records the
\* reason timeExpired, adds one explosion and goes to exploding; the phase
\* then becomes gameover; nothing is triggered again at timeRemaining = 0.
C6_TimeExpiredOnce ==
  /\ [][gameState = "playing" /\ timeRemaining > 0 /\ timeRemaining' = 0 =>
          /\ gameState' = "exploding"
          /\ gameOverReason' = "timeExpired"
          /\ Len(explosions') = Len(explosions) + 1]_vars
  /\ [][timeRemaining = 0 /\ timeRemaining' = 0 /\ gameState # "gameover" =>
          explosions' = explosions]_vars
  /\ (gameState = "exploding" /\ timeRemaining = 0) ~> (gameState = "gameover")

(***************************************************************************)
(* Properties of the score and of the obstacles                            *)
(***************************************************************************)
\* C11: score is a natural number; it only goes down when a start intent
\* resets it to 0; a step into or out of paused leaves it unchanged, and the
\* next-level intent keeps it.
C11_ScoreNeverDecreases ==
  /\ [](score \in Nat)
  /\ [][score' < score =>
          gameState \in {"idle", "gameover"} /\ gameState' = "playing" /\ score' = 0]_vars
  /\ [][gameState' = "paused" \/ gameState = "paused" => score' = score]_vars
  /\ [][level' = level + 1 => score' = score]_vars

\* a second level is played with the points of the first and more points are
\* scored in it
C11_Witness ==
  /\ level > 1
  /\ gameState = "playing"
  /\ destroyedThisLevel > 0
  /\ score > SCORE_BOSS

\* P holds of every tick the step can be: r is the record of what the tick
\* read and wrote, for each frame time and each draw that gives this step
EveryTick(P(_)) ==
  \A deltaTime \in DeltaTimes,
     eager \in IF ExpiresNow THEN BOOLEAN ELSE {FALSE},
     size \in IF SpawnsNow THEN SizeDraws ELSE Only(SizeDraws),
     spawnX \in IF SpawnsNow THEN SpawnXDraws ELSE Only(SpawnXDraws),
     angle \in IF SpawnsNow THEN AngleDraws ELSE Only(AngleDraws),
     bossAngle \in BossAngleDraws :
    gameLoop(deltaTime, eager, size, spawnX, angle, bossAngle)
      => P(tick(deltaTime, eager, size, spawnX, angle, bossAngle))

\* the pairs (projectile, obstacle) that overlap in the lists the collision
\* checks of the tick read
OverlappingPairs(r) ==
  { pair \in (1..Len(r.movedBullets)) \X (1..Len(r.movedObstacles)) :
      bulletHits(r.movedBullets[pair[1]], r.movedObstacles[pair[2]]) }

\* the tick in which one projectile overlaps one obstacle, not the boss:
\* the obstacle and the projectile are gone after the tick, the score is up
\* by 5, 10 or 15 after the size, and destroyedThisLevel is up by 1
RegularHit(r) ==
  \A pair \in OverlappingPairs(r) :
    LET obstacle == r.movedObstacles[pair[2]]
    IN OverlappingPairs(r) = {pair} /\ ~obstacle.isBoss =>
         /\ obstacles' = Without(r.movedObstacles, {pair[2]}, 1)
         /\ bullets' = Without(r.movedBullets, {pair[1]}, 1)
         /\ score' = score + (IF obstacle.size = "small" THEN SCORE_SMALL
                              ELSE IF obstacle.size = "medium" THEN SCORE_MEDIUM
                              ELSE SCORE_LARGE)
         /\ destroyedThisLevel' = destroyedThisLevel + 1

\* C12: a projectile that overlaps a non-boss obstacle in a tick removes the
\* obstacle in that tick and is removed itself; score grows by 5 (small), 10
\* (medium) or 15 (large) and destroyedThisLevel by exactly 1.
C12_RegularHitRemovesBoth ==
  [][EveryTick(RegularHit)]_vars

(***************************************************************************)
(* Properties of the boss                                                  *)
(***************************************************************************)
\* C13: while the boss has taken 1 to 14 hits it is in the obstacle list and
\* bossActive is true; the tick that brings bossHits to 15 or more removes
\* the boss from the obstacle list, adds the bonus of 100 to the score (next
\* to the 5 to 15 points of each obstacle destroyed in the same tick) and
\* sets the phase to levelcomplete.
C13_BossFlow ==
  /\ [](bossHits \in 1..(BOSS_MAX_HITS - 1) => bossActive /\ HasBoss(obstacles))
  /\ [][bossHits < BOSS_MAX_HITS /\ bossHits' >= BOSS_MAX_HITS =>
          /\ ~HasBoss(obstacles')
          /\ score' - score - SCORE_BOSS >= SCORE_SMALL * (destroyedThisLevel' - destroyedThisLevel)
          /\ score' - score - SCORE_BOSS <= SCORE_LARGE * (destroyedThisLevel' - destroyedThisLevel)
          /\ gameState' = "levelcomplete"]_vars

\* the step is a tick that adds the boss to the obstacle list
BossAdded == ~HasBoss(obstacles) /\ HasBoss(obstacles')

\* in the playing phase the destroyed counter has reached the threshold and
\* no boss has been spawned for the attempt
BossDue ==
  /\ gameState = "playing"
  /\ destroyedThisLevel >= 5 * level
  /\ ~bossActive
  /\ ~bossSpawnedThisAttemptRef
  /\ ~HasBoss(obstacles)

\* the step is a tick: the countdown runs in every tick of a playing game
Ticks == gameState = "playing" /\ timeRemaining' < timeRemaining

\* C14: the boss is added to the obstacle list only by a tick that starts
\* with destroyedThisLevel >= 5 * level, and the first tick that starts with
\* the threshold reached and no boss spawned for the attempt adds it.
C14_DestroyedCounterGatesBoss ==
  /\ [][BossAdded => gameState = "playing" /\ destroyedThisLevel >= 5 * level]_vars
  /\ [][BossDue /\ Ticks => HasBoss(obstacles')]_vars

\* the boss has been added in the second level, after ten obstacles
C14_Witness ==
  /\ level = 2
  /\ destroyedThisLevel >= 10
  /\ HasBoss(obstacles)
  /\ bossSpawnedThisAttemptRef

RECURSIVE BossCount(_)
BossCount(obs) ==
  IF obs = << >> THEN 0
  ELSE (IF Head(obs).isBoss THEN 1 ELSE 0) + BossCount(Tail(obs))

RegularCount(obs) == Len(obs) - BossCount(obs)

\* the tick adds no obstacle other than the boss to the list its collision
\* checks read, and leaves the spawn accumulator as it is
NoRegularSpawn(r) ==
  /\ RegularCount(r.movedObstacles) <= RegularCount(obstacles)
  /\ RegularCount(obstacles') <= RegularCount(obstacles)
  /\ obstacleSpawnAccumulatorRef' = obstacleSpawnAccumulatorRef

SpawnSuspended(r) == bossActive => NoRegularSpawn(r)

\* C16: a tick that starts with bossActive true adds no non-boss obstacle to
\* the obstacle list and does not advance the spawn accumulator.
C16_NoSpawnWhileBossAlive ==
  [][EveryTick(SpawnSuspended)]_vars

\* the boss has been flying for several ticks of a playing game
C16_Witness ==
  /\ gameState = "playing"
  /\ bossActive
  /\ \E i \in 1..Len(obstacles) : obstacles[i].isBoss /\ obstacles[i].position.y > 20000

\* the tick that completes the level read a list with the boss in it and
\* counted the hit that brings bossHits to 15
BossDefeated(r) ==
  gameState' = "levelcomplete" =>
    /\ HasBoss(r.movedObstacles)
    /\ bossHits' >= BOSS_MAX_HITS
    /\ bossActive \/ r.bossSpawnedThisAttemptRef

\* C17: the phase becomes levelcomplete only by a tick in which the boss is
\* in the obstacle list and bossHits reaches 15; no other step (a tick that
\* destroys obstacles or takes the countdown to 0, an intent, a timer)
\* enters levelcomplete.
C17_BossDefeatGatesLevelComplete ==
  /\ [][gameState' = "levelcomplete" /\ gameState # "levelcomplete" =>
          /\ Ticks
          /\ bossHits < BOSS_MAX_HITS
          /\ bossHits' >= BOSS_MAX_HITS]_vars
  /\ [][EveryTick(BossDefeated)]_vars

\* the level is complete after the boss took its hits over several ticks
C17_Witness ==
  /\ gameState = "levelcomplete"
  /\ bossHits >= BOSS_MAX_HITS
  /\ destroyedThisLevel >= 5 * level
  /\ \E i \in 1..Len(obstacles) : obstacles[i].isBoss /\ obstacles[i].position.y > 12500

(***************************************************************************)
(* Properties of the intents                                               *)
(***************************************************************************)
\* C18: the step from levelcomplete to playing (the next-level intent) adds
\* exactly 1 to level, sets destroyedThisLevel and bossHits to 0 and
\* bossActive to false, empties the bullet and obstacle lists, puts the
\* player at the centre, sets the countdown to the duration of the new level
\* and leaves score unchanged.
C18_NextLevelEffect ==
  [][gameState = "levelcomplete" /\ gameState' = "playing" =>
       /\ level' = level + 1
       /\ destroyedThisLevel' = 0
       /\ bossHits' = 0
       /\ bossActive' = FALSE
       /\ bullets' = << >>
       /\ obstacles' = << >>
       /\ playerPos' = [x |-> 50000, y |-> 50000]
       /\ timeRemaining' = (30 + 5 * level) * MsPerSecond
       /\ score' = score]_vars

\* the second level has just begun, with the points of the first
C18_Witness ==
  /\ gameState = "playing"
  /\ level = 2
  /\ timeRemaining = 35 * MsPerSecond
  /\ score >= SCORE_BOSS
  /\ obstacles = << >>
  /\ ~bossSpawnedThisAttemptRef

\* what the player sees of the game
World ==
  << gameState, gameOverReason, playerPos, bullets, obstacles, explosions, score,
     level, destroyedThisLevel, bossActive, bossHits, timeRemaining >>

\* the step is a restart: a new game at level 1 with nothing on the field
Restarts ==
  /\ gameState' = "playing" /\ gameOverReason' = NoReason
  /\ level' = 1 /\ score' = 0 /\ destroyedThisLevel' = 0
  /\ bullets' = << >> /\ obstacles' = << >>

\* the step is the begin of the next level
BeginsNextLevel ==
  /\ gameState' = "playing" /\ gameOverReason' = NoReason
  /\ level' = level + 1 /\ score' = score /\ destroyedThisLevel' = 0
  /\ bullets' = << >> /\ obstacles' = << >>

\* the step is the callback of the explosion timer, not an intent
TimerFires == explosionTimerRef = "pending" /\ gameState' = "gameover"

HitKinds == {"small", "medium", "large", "boss"}

HitRadius(kind) ==
  IF kind = "boss" THEN BOSS_SIZE
  ELSE ObstacleSize([size |-> kind, isBoss |-> FALSE])

\* horizontal offsets of the obstacle from the jet, in 1/10 pixel
HitOffsetsX == {0, 300}

\* the two boundaries of the rule for a kind, in 1/10 pixel
HitBoundaries(kind) ==
  { (JET_SIZE + HitRadius(kind)) * 10,
    (JET_SIZE + HitRadius(kind)) * 10 - 4 * Min(JET_SIZE, HitRadius(kind)) }

\* vertical offsets that put the obstacle at, just inside and just outside a
\* boundary, in 1/10 pixel
HitOffsetsY(kind, dx) ==
  { ISqrt(b * b - dx * dx) + e : b \in HitBoundaries(kind), e \in {-1, 0, 1} }

\* 1/10 pixel to 1/1000 percent of the playfield
TenthPixelToPercent(d, maxDim) == (d * 10000) \div maxDim

\* the obstacle one tick before it stands dx right of and dy above the jet
HitObstacle(kind, dx, dy) ==
  LET speed == OBSTACLE_SPEED * (IF kind = "boss" THEN 600 ELSE 1000)
      step == (((speed * MAX_DELTA_TIME) \div 1000) * 100) \div 400
  IN [position |-> [x |-> StartPos.x + TenthPixelToPercent(dx, 400),
                    y |-> StartPos.y - TenthPixelToPercent(dy, 400) - step],
      velocity |-> [x |-> 0, y |-> speed],
      size |-> IF kind = "boss" THEN "large" ELSE kind,
      isBoss |-> kind = "boss"]

InitFullHit ==
  /\ \E kind \in HitKinds, dx \in HitOffsetsX :
       \E dy \in HitOffsetsY(kind, dx) :
         /\ obstacles = << HitObstacle(kind, dx, dy) >>
         /\ bossActive = (kind = "boss")
         /\ bossSpawnedThisAttemptRef = (kind = "boss")
         /\ destroyedThisLevel = (IF kind = "boss" THEN getBossSpawnThreshold(1) ELSE 0)
         /\ score = (IF kind = "boss" THEN getBossSpawnThreshold(1) * SCORE_SMALL ELSE 0)
  /\ gameState = "playing"
  /\ gameStateRef = "playing"
  /\ animationFrameRef = TRUE
  /\ gameOverReason = NoReason
  /\ playerPos = StartPos
  /\ bullets = << >>
  /\ explosions = << >>
  /\ playfieldSize \in PlayfieldSizes
  /\ facingAngle = 0
  /\ level = 1
  /\ bossHits = 0
  /\ timeRemaining = getLevelDuration(1) * MsPerSecond - 2 * OBSTACLE_SPAWN_INTERVAL
  /\ sensitivity = DEFAULT_SENSITIVITY
  /\ storedSensitivity = toString(sensitivity)
  /\ joystickVectorRef = ZeroVector
  /\ explosionTimerRef = "null"
  /\ orphanTimers = 0
  /\ obstacleSpawnAccumulatorRef = 0
  /\ isFiringRef = FALSE
  /\ fireAccumulatorRef = 0
  /\ controlEvents = MaxControlEvents

\* the game goes on without touch events
NextFullHit ==
  \/ explosionTimeout
  \/ \E deltaTime \in DeltaTimes,
        eager \in IF ExpiresNow THEN BOOLEAN ELSE {FALSE},
        size \in IF SpawnsNow THEN SizeDraws ELSE Only(SizeDraws),
        spawnX \in IF SpawnsNow THEN SpawnXDraws ELSE Only(SpawnXDraws),
        angle \in IF SpawnsNow THEN AngleDraws ELSE Only(AngleDraws),
        bossAngle \in BossAngleDraws :
       /\ gameLoop(deltaTime, eager, size, spawnX, angle, bossAngle)
       /\ Len(obstacles') <= MaxObstacles

SpecFullHit == InitFullHit /\ [][NextFullHit]_vars

\* the rule, on the 1/10 pixel grid: the circles overlap and the overlap is
\* at least 0.4 * min(radii) deep, that is distance <= sum - 0.4 * min
FullHitRule(jet, radiusPlayer, obstaclePos, radiusObstacle) ==
  LET dx == ((obstaclePos.x - jet.x) * playfieldSize.width) \div 10000
      dy == ((obstaclePos.y - jet.y) * playfieldSize.height) \div 10000
      sum == 10 * (radiusPlayer + radiusObstacle)
      least == 4 * Min(radiusPlayer, radiusObstacle)
  IN /\ dx * dx + dy * dy < sum * sum
     /\ dx * dx + dy * dy <= (sum - least) * (sum - least)

\* the tick adds the explosion of the obstacle game over exactly when an
\* obstacle of the list it checks meets the rule
FullHitDecides(r) ==
  (\E k \in 1..Len(explosions') : explosions'[k] = "bomb")
    <=> (\E i \in 1..Len(r.movedObstacles) :
           FullHitRule(playerPos, JET_SIZE, r.movedObstacles[i].position,
                       ObstacleSize(r.movedObstacles[i])))

\* C20: a tick triggers the obstacle game over if and only if the circle of
\* the jet and the circle of an obstacle overlap (distance < sum of the
\* radii) with an overlap depth of at least 0.4 * min(radii); an overlap one
\* tenth of a pixel less deep does not trigger it.
C20_FullHitRule ==
  [][EveryTick(FullHitDecides)]_vars

\* the obstacle game over has been triggered by an overlap of exactly
\* 0.4 * min(radii)
C20_Witness ==
  /\ gameState = "exploding"
  /\ gameOverReason = "obstacle"
  /\ \E i \in 1..Len(obstacles) :
       LET dx == ((obstacles[i].position.x - playerPos.x) * playfieldSize.width) \div 10000
           dy == ((obstacles[i].position.y - playerPos.y) * playfieldSize.height) \div 10000
           reach == 10 * (JET_SIZE + ObstacleSize(obstacles[i]))
                      - 4 * Min(JET_SIZE, ObstacleSize(obstacles[i]))
       IN dx * dx + dy * dy = reach * reach

(***************************************************************************)
(* Reflection at the border, on games with one obstacle near the border    *)
(*                                                                         *)
(* The last half second of a level: one obstacle flies, at rest or at the  *)
(* spawn speed on each axis, and the next tick moves it to a place inside, *)
(* on or outside the range clampPosition allows, on each axis.             *)
(***************************************************************************)
BorderKinds == {"small", "boss"}

\* speed of an obstacle on one axis, 1/1000 pixel per second
AxisSpeeds == {-OBSTACLE_SPEED * 1000, 0, OBSTACLE_SPEED * 1000}

\* movement on one axis in one tick of MAX_DELTA_TIME, in 1/1000 percent
AxisStep(speed, maxDim) == (((speed * MAX_DELTA_TIME) \div 1000) * 100) \div maxDim

\* places on one axis, given the half size of the obstacle in 1/1000 percent
AxisPlaces(half) ==
  {half - 3000, half - 1, half, 50000, 100000 - half, 100000 - half + 1, 100000 - half + 3000}

BorderObstacle(kind, x, y, vx, vy) ==
  [position |-> [x |-> x - AxisStep(vx, 400), y |-> y - AxisStep(vy, 400)],
   velocity |-> [x |-> vx, y |-> vy],
   size |-> IF kind = "boss" THEN "large" ELSE kind,
   isBoss |-> kind = "boss"]

InitReflect ==
  /\ \E kind \in BorderKinds, vx \in AxisSpeeds, vy \in AxisSpeeds :
       \E x \in AxisPlaces(HalfPercent(HitRadius(kind), 400)),
          y \in AxisPlaces(HalfPercent(HitRadius(kind), 400)) :
         /\ obstacles = << BorderObstacle(kind, x, y, vx, vy) >>
         /\ bossActive = (kind = "boss")
         /\ bossSpawnedThisAttemptRef = (kind = "boss")
         /\ destroyedThisLevel = (IF kind = "boss" THEN getBossSpawnThreshold(1) ELSE 0)
         /\ score = (IF kind = "boss" THEN getBossSpawnThreshold(1) * SCORE_SMALL ELSE 0)
  /\ gameState = "playing"
  /\ gameStateRef = "playing"
  /\ animationFrameRef = TRUE
  /\ gameOverReason = NoReason
  /\ playerPos = StartPos
  /\ bullets = << >>
  /\ explosions = << >>
  /\ playfieldSize \in PlayfieldSizes
  /\ facingAngle = 0
  /\ level = 1
  /\ bossHits = 0
  /\ timeRemaining = 4 * MAX_DELTA_TIME
  /\ sensitivity = DEFAULT_SENSITIVITY
  /\ storedSensitivity = toString(sensitivity)
  /\ joystickVectorRef = ZeroVector
  /\ explosionTimerRef = "null"
  /\ orphanTimers = 0
  /\ obstacleSpawnAccumulatorRef = OBSTACLE_SPAWN_INTERVAL - 5 * MAX_DELTA_TIME
  /\ isFiringRef = FALSE
  /\ fireAccumulatorRef = 0
  /\ controlEvents = MaxControlEvents

SpecReflect == InitReflect /\ [][NextFullHit]_vars

\* one axis of the rule: out and outVel are returned for the input place inp
\* and speed vel, where clampPosition allows inp only as the place allowed
AxisReflects(inp, vel, allowed, out, outAllowed, outVel) ==
  /\ out = outAllowed
  /\ inp < allowed => outVel >= 0 /\ Abs(outVel) = Abs(vel)
  /\ inp > allowed => outVel <= 0 /\ Abs(outVel) = Abs(vel)
  /\ inp = allowed => out = inp /\ outVel = vel

\* the obstacle o moved for one tick and then returned as out
Reflects(o, out) ==
  LET inp == [x |-> o.position.x + AxisStep(o.velocity.x, playfieldSize.width),
              y |-> o.position.y + AxisStep(o.velocity.y, playfieldSize.height)]
      allowed == clampPosition(inp, playfieldSize.width, playfieldSize.height, ObstacleSize(o))
      outAllowed == clampPosition(out.position, playfieldSize.width, playfieldSize.height,
                                  ObstacleSize(o))
  IN /\ AxisReflects(inp.x, o.velocity.x, allowed.x, out.position.x, outAllowed.x, out.velocity.x)
     /\ AxisReflects(inp.y, o.velocity.y, allowed.y, out.position.y, outAllowed.y, out.velocity.y)

\* C21: the position returned by reflectAtBounds lies within the range of
\* clampPosition on both axes; on an axis where the input was outside the
\* range the returned velocity component points back into the field (>= 0
\* at the low edge, <= 0 at the high edge) with the magnitude unchanged; on
\* an axis where the input was inside, position and velocity component are
\* returned unchanged.  Stated of the one obstacle of a tick, which the tick
\* moves and then passes through reflectAtBounds.
C21_ReflectAtBoundsPerAxis ==
  [][Ticks /\ Len(obstacles) = 1 /\ Len(obstacles') = 1 =>
       Reflects(obstacles[1], obstacles'[1])]_vars

\* an obstacle has bounced off the left and the top edge in one tick
C21_Witness ==
  /\ timeRemaining < 4 * MAX_DELTA_TIME
  /\ Len(obstacles) = 1
  /\ obstacles[1].position.x = HalfPercent(ObstacleSize(obstacles[1]), playfieldSize.width)
  /\ obstacles[1].position.y = HalfPercent(ObstacleSize(obstacles[1]), playfieldSize.width)
  /\ obstacles[1].velocity.x > 0
  /\ obstacles[1].velocity.y > 0

(***************************************************************************)
(* Obstacles near the top edge, on a square and on a landscape playfield   *)
(*                                                                         *)
(* The last half second of a level.  Either one obstacle rises towards the *)
(* top edge, or the boss has just come down from above the field and a     *)
(* large obstacle that bounced off the bottom edge rises into it.          *)
(***************************************************************************)
\* playfield sizes the browser may report: a square one and a phone held
\* sideways (pixels)
FieldSizes == PlayfieldSizes \cup {[width |-> 1000, height |-> 400]}

\* horizontal places of the rising obstacle (1/1000 percent)
RisingPlaces == {20000, 50000, 80000}

RisingObstacle(kind, x, vx) ==
  [position |-> [x |-> x, y |-> 10000],
   velocity |-> [x |-> vx, y |-> -OBSTACLE_SPEED * 1000],
   size |-> IF kind = "boss" THEN "large" ELSE kind,
   isBoss |-> kind = "boss"]

\* the boss after its first tick, and a large obstacle below that rises
BossAndRising(size, gap) ==
  LET bound == HalfPercent(BOSS_SIZE, size.width)
  IN << [position |-> [x |-> 50000, y |-> bound + gap],
         velocity |-> [x |-> 0, y |-> -OBSTACLE_SPEED * 1000],
         size |-> "large", isBoss |-> FALSE],
        [position |-> [x |-> 50000, y |-> bound],
         velocity |-> [x |-> 0, y |-> (OBSTACLE_SPEED * 600 * LevelMultiplier(1)) \div 100],
         size |-> "large", isBoss |-> TRUE] >>

\* distance between the boss and the obstacle below it (1/1000 percent):
\* the two circles are apart and meet in the next tick
RisingGaps == {20000, 22000}

InitField ==
  /\ playfieldSize \in FieldSizes
  /\ \/ \E kind \in HitKinds, x \in RisingPlaces, vx \in AxisSpeeds :
          obstacles = << RisingObstacle(kind, x, vx) >>
     \/ \E gap \in RisingGaps : obstacles = BossAndRising(playfieldSize, gap)
  /\ bossActive = HasBoss(obstacles)
  /\ bossSpawnedThisAttemptRef = HasBoss(obstacles)
  /\ destroyedThisLevel = (IF HasBoss(obstacles) THEN getBossSpawnThreshold(1) ELSE 0)
  /\ score = (IF HasBoss(obstacles) THEN getBossSpawnThreshold(1) * SCORE_SMALL ELSE 0)
  /\ gameState = "playing"
  /\ gameStateRef = "playing"
  /\ animationFrameRef = TRUE
  /\ gameOverReason = NoReason
  /\ playerPos = StartPos
  /\ bullets = << >>
  /\ explosions = << >>
  /\ facingAngle = 0
  /\ level = 1
  /\ bossHits = 0
  /\ timeRemaining = 5 * MAX_DELTA_TIME
  /\ sensitivity = DEFAULT_SENSITIVITY
  /\ storedSensitivity = toString(sensitivity)
  /\ joystickVectorRef = ZeroVector
  /\ explosionTimerRef = "null"
  /\ orphanTimers = 0
  /\ obstacleSpawnAccumulatorRef = OBSTACLE_SPAWN_INTERVAL - 6 * MAX_DELTA_TIME
  /\ isFiringRef = FALSE
  /\ fireAccumulatorRef = 0
  /\ controlEvents = MaxControlEvents

SpecField == InitField /\ [][NextFullHit]_vars

\* the obstacle is within the bounds isOutOfBounds tests obstacles against
InBounds(o) ==
  ~isOutOfBounds(o.position, playfieldSize.width, playfieldSize.height, ObstacleSize(o))

\* the circle of the obstacle, of diameter ObstacleSize, is within the field
CircleInField(o) ==
  LET rx == HalfPercent(ObstacleSize(o), 2 * playfieldSize.width)
      ry == HalfPercent(ObstacleSize(o), 2 * playfieldSize.height)
  IN /\ o.position.x - rx >= 0 /\ o.position.x + rx <= 100000
     /\ o.position.y - ry >= 0 /\ o.position.y + ry <= 100000

\* C22: at the end of every tick every obstacle of the list, regular or boss,
\* is within the bounds of the playfield, also where the separation of
\* overlapping obstacles moved it after its reflection at the border.
C22_ObstaclesStayInField ==
  [][Ticks => \A i \in 1..Len(obstacles') : InBounds(obstacles'[i])]_vars

\* the same with the circle of the obstacle in place of the bounds of
\* isOutOfBounds
C22_CirclesStayInField ==
  [][Ticks => \A i \in 1..Len(obstacles') : CircleInField(obstacles'[i])]_vars

\* the jet stands at the border when the tick begins
JetAtBorder == isAtBorder(playerPos, playfieldSize.width, playfieldSize.height, JET_SIZE)

\* C23: a tick that finds the jet at the border of the playfield while
\* playing triggers the game over once: the phase becomes exploding, one
\* explosion is added, and the reason is border, or timeExpired where the
\* countdown reached zero earlier in the same tick; the reason is still the
\* same when the phase becomes gameover.
C23_BorderIsLethal ==
  /\ [][Ticks /\ JetAtBorder =>
          /\ gameState' = "exploding"
          /\ Len(explosions') = Len(explosions) + 1
          /\ gameOverReason' \in {"border"} \cup (IF ExpiresNow THEN {"timeExpired"} ELSE {})]_vars
  /\ [][gameState = "exploding" /\ gameState' = "gameover" =>
          gameOverReason' = gameOverReason]_vars

(***************************************************************************)
(* Shots while the jet turns                                               *)
(*                                                                         *)
(* The last ticks of a level without obstacles: the fire button is held    *)
(* and the joystick is pushed up, right, down or left and released.        *)
(***************************************************************************)
\* joystick vectors of the four axis directions at full deflection
AimInputs ==
  JoystickInputs \cup { [x |-> 1000, y |-> 0, magnitude |-> 1000],
                        [x |-> 0, y |-> 1000, magnitude |-> 1000],
                        [x |-> -1000, y |-> 0, magnitude |-> 1000] }

InitAim ==
  /\ gameState = "playing"
  /\ gameStateRef = "playing"
  /\ animationFrameRef = TRUE
  /\ gameOverReason = NoReason
  /\ playerPos = StartPos
  /\ bullets = << >>
  /\ obstacles = << >>
  /\ explosions = << >>
  /\ playfieldSize \in PlayfieldSizes
  /\ facingAngle = 0
  /\ score = 0
  /\ level = 1
  /\ destroyedThisLevel = 0
  /\ bossActive = FALSE
  /\ bossHits = 0
  /\ timeRemaining = 6 * MAX_DELTA_TIME
  /\ sensitivity = DEFAULT_SENSITIVITY
  /\ storedSensitivity = toString(sensitivity)
  /\ joystickVectorRef = ZeroVector
  /\ explosionTimerRef = "null"
  /\ orphanTimers = 0
  /\ obstacleSpawnAccumulatorRef = 0
  /\ isFiringRef = TRUE
  /\ fireAccumulatorRef = 0
  /\ bossSpawnedThisAttemptRef = FALSE
  /\ controlEvents = 0

NextAim ==
  \/ explosionTimeout
  \/ \E vector \in AimInputs : handleJoystickMove(vector) /\ joystickVectorRef # vector
  \/ handleJoystickNeutral /\ joystickVectorRef # ZeroVector
  \/ handleFireStart /\ ~isFiringRef /\ FireAreaActive
  \/ handleFireEnd /\ isFiringRef
  \/ \E deltaTime \in DeltaTimes,
        eager \in IF ExpiresNow THEN BOOLEAN ELSE {FALSE},
        size \in Only(SizeDraws), spawnX \in Only(SpawnXDraws), angle \in Only(AngleDraws),
        bossAngle \in BossAngleDraws :
       /\ gameLoop(deltaTime, eager, size, spawnX, angle, bossAngle)
       /\ Len(bullets') <= MaxBullets

SpecAim == InitAim /\ [][NextAim]_vars

\* the bullet has flown for one tick: its position moved by its velocity,
\* velocity and angle as they were
Flown(b) == [b EXCEPT !.position = [x |-> @.x + b.velocityPercent.x,
                                    y |-> @.y + b.velocityPercent.y]]

\* C24: the velocity and the angle of a projectile are those captured when
\* it was spawned: a tick changes of a projectile in flight only the
\* position, by exactly its velocity, whatever the jet faces by then; a
\* projectile that a tick adds has the velocity and the angle of the facing
\* angle of that tick; a movement intent, and every other step that is not
\* a tick, leaves the projectiles as they are.
C24_ProjectilesKeepTheirAim ==
  /\ [][Ticks =>
          \E n \in 0..Len(bullets') :
            /\ \A j \in 1..n : \E i \in 1..Len(bullets) : bullets'[j] = Flown(bullets[i])
            /\ \A j \in n+1..Len(bullets') : bullets'[j] = Flown(newBullet)
            /\ \A j, k \in 1..n : j < k =>
                 \E i, l \in 1..Len(bullets) :
                   i < l /\ bullets'[j] = Flown(bullets[i]) /\ bullets'[k] = Flown(bullets[l])]_vars
  /\ [][~Ticks /\ gameState' = gameState => bullets' = bullets]_vars

\* projectiles shot in two directions are in flight while the jet faces a
\* third
C24_Witness ==
  \E i, j \in 1..Len(bullets) :
    /\ bullets[i].angle # bullets[j].angle
    /\ bullets[i].angle # facingAngle
    /\ bullets[j].angle # facingAngle
    /\ bullets[i].velocityPercent # bullets[j].velocityPercent
    /\ timeRemaining < 3 * MAX_DELTA_TIME

\* the points of the obstacles of os with an index in remove
RECURSIVE ScoreOf(_, _)
ScoreOf(os, remove) ==
  IF remove = {} THEN 0
  ELSE LET j == CHOOSE k \in remove : TRUE
       IN ScoreValue(os[j]) + ScoreOf(os, remove \ {j})

\* every hit of the tick has its own projectile: the projectiles that hit
\* are as many as the obstacles destroyed and the hits the boss took
OneHitPerProjectile(r) ==
  Cardinality(r.hit.bulletsToRemove) =
    (destroyedThisLevel' - destroyedThisLevel) + (bossHits' - bossHits)

\* the obstacles that were hit are counted and, where the boss is not in
\* the list, scored once each
OneScorePerObstacle(r) ==
  /\ Cardinality(r.hit.obstaclesToRemove) = destroyedThisLevel' - destroyedThisLevel
  /\ obstacles' = Without(r.movedObstacles, r.hit.obstaclesToRemove, 1)
  /\ ~HasBoss(r.movedObstacles) =>
       score' - score = ScoreOf(r.movedObstacles, r.hit.obstaclesToRemove)

\* the projectiles that hit are not in the list after the tick
HitProjectilesRemoved(r) ==
  bullets' = Without(r.movedBullets, r.hit.bulletsToRemove, 1)

ProjectileConsumed(r) ==
  OneHitPerProjectile(r) /\ OneScorePerObstacle(r) /\ HitProjectilesRemoved(r)

\* C25: within one tick each projectile hits at most one obstacle and is
\* removed from the list of projectiles in that tick, and each regular
\* obstacle is destroyed and scored at most once, also where several
\* projectiles overlap it.
C25_HitConsumesProjectile ==
  [][EveryTick(ProjectileConsumed)]_vars

\* the parts of C25 on the counting of hits, without the removal
C25_HitsCountedOnce ==
  [][EveryTick(OneHitPerProjectile) /\ EveryTick(OneScorePerObstacle)]_vars

\* C26: a step taken while the phase is idle, paused, exploding, gameover or
\* levelcomplete does not set the fire latch, does not set the movement
\* vector (it may clear it), and adds no projectile.
C26_NoInputOutsidePlaying ==
  [][gameState # "playing" =>
       /\ isFiringRef' => isFiringRef
       /\ joystickVectorRef' \in {joystickVectorRef, ZeroVector}
       /\ Len(bullets') <= Len(bullets)]_vars

(***************************************************************************)
(* Two obstacles that meet                                                 *)
(*                                                                         *)
(* The last ticks of a level with one or two obstacles.  Either an         *)
(* obstacle reaches the top edge in the tick in which the next obstacle is *)
(* spawned in its column or 8 pixels beside it: both are reflected to the  *)
(* top of the range and overlap there, at the identical position when      *)
(* their sizes and columns agree.  Or two obstacles, one flying down and   *)
(* one that bounced off the bottom edge flying up, touch or are a pixel    *)
(* apart and overlap after the tick.                                       *)
(***************************************************************************)
\* horizontal offsets of the first obstacle from the column of the spawn,
\* after the tick (1/1000 percent)
MeetOffsets == {-2000, 0, 2000}

\* horizontal velocities of the first obstacle (1/1000 pixel per second)
MeetSpeedsX == {-(OBSTACLE_SPEED * 1000) \div 2, 0, (OBSTACLE_SPEED * 1000) \div 2}

\* what spawnObstacle adds for the size drawn (spawnX and angle have one draw)
Spawned(size) ==
  spawnObstacle(<< >>, 1, size, CHOOSE x \in SpawnXDraws : TRUE,
                CHOOSE a \in AngleDraws : TRUE)[1]

\* an obstacle that crosses the top of its range in the next tick
AtTopEdge(size, offset, vx) ==
  [position |-> [x |-> Spawned(size).position.x + offset - AxisStep(vx, 400),
                 y |-> HalfPercent(ObstacleSize(Spawned(size)), 400) + 1000],
   velocity |-> [x |-> vx, y |-> -OBSTACLE_SPEED * 1000],
   size |-> size, isBoss |-> FALSE]

\* two obstacles in columns offset apart, the centres gap further apart
\* than the sum of the sizes, flying at each other
HeadOn(size1, size2, offset, gap) ==
  LET reach == HalfPercent(ObstacleSize(Spawned(size1)) + ObstacleSize(Spawned(size2)), 400)
  IN << [position |-> [x |-> 50000, y |-> 30000],
         velocity |-> [x |-> 0, y |-> OBSTACLE_SPEED * 1000],
         size |-> size1, isBoss |-> FALSE],
        [position |-> [x |-> 50000 + offset, y |-> 30000 + reach + gap],
         velocity |-> [x |-> 0, y |-> -OBSTACLE_SPEED * 1000],
         size |-> size2, isBoss |-> FALSE] >>

\* distance of the two left to the sum of the sizes (1/1000 percent)
MeetGaps == {0, 250}

InitCollide ==
  /\ playfieldSize \in PlayfieldSizes
  /\ level = 1
  /\ \/ /\ \E size \in SizeDraws, offset \in MeetOffsets, vx \in MeetSpeedsX :
             obstacles = << AtTopEdge(size, offset, vx) >>
        /\ obstacleSpawnAccumulatorRef = OBSTACLE_SPAWN_INTERVAL - MAX_DELTA_TIME
     \/ /\ \E size1 \in SizeDraws, size2 \in SizeDraws, offset \in MeetOffsets, gap \in MeetGaps :
             obstacles = HeadOn(size1, size2, offset, gap)
        /\ obstacleSpawnAccumulatorRef = 0
  /\ bossActive = FALSE
  /\ bossSpawnedThisAttemptRef = FALSE
  /\ destroyedThisLevel = 0
  /\ score = 0
  /\ gameState = "playing"
  /\ gameStateRef = "playing"
  /\ animationFrameRef = TRUE
  /\ gameOverReason = NoReason
  /\ playerPos = StartPos
  /\ bullets = << >>
  /\ explosions = << >>
  /\ facingAngle = 0
  /\ bossHits = 0
  /\ timeRemaining = 4 * MAX_DELTA_TIME
  /\ sensitivity = DEFAULT_SENSITIVITY
  /\ storedSensitivity = toString(sensitivity)
  /\ joystickVectorRef = ZeroVector
  /\ explosionTimerRef = "null"
  /\ orphanTimers = 0
  /\ isFiringRef = FALSE
  /\ fireAccumulatorRef = 0
  /\ controlEvents = MaxControlEvents

SpecCollide == InitCollide /\ [][NextFullHit]_vars

\* the two obstacles the solver of the tick starts from, after movement and
\* reflection: those of the list, or the one of the list and the spawned one
Meeting(r) ==
  IF Len(obstacles) = 2
  THEN << moveObstacle(obstacles[1], MAX_DELTA_TIME), moveObstacle(obstacles[2], MAX_DELTA_TIME) >>
  ELSE << moveObstacle(obstacles[1], MAX_DELTA_TIME),
          moveObstacle(Spawned(r.movedObstacles[2].size), MAX_DELTA_TIME) >>

\* the tick starts the solver from two obstacles and keeps both
TwoMeet(r) ==
  /\ Len(r.movedObstacles) = 2
  /\ Len(obstacles) = 2 \/ (Len(obstacles) = 1 /\ SpawnsNow)

\* every velocity component is within [-MAX_VELOCITY, MAX_VELOCITY]
VelocityBounded(o) ==
  /\ o.velocity.x >= -MAX_VELOCITY * 1000 /\ o.velocity.x <= MAX_VELOCITY * 1000
  /\ o.velocity.y >= -MAX_VELOCITY * 1000 /\ o.velocity.y <= MAX_VELOCITY * 1000

\* from the identical position: apart along (1, 0), the first to the left,
\* by the sum of the sizes or more
IdenticalResolved(r) ==
  LET a == Meeting(r)[1]
      b == Meeting(r)[2]
      a2 == r.movedObstacles[1]
      b2 == r.movedObstacles[2]
  IN TwoMeet(r) /\ a.position = b.position =>
       /\ a2.position.y = a.position.y
       /\ b2.position.y = b.position.y
       /\ a2.position.x < a.position.x
       /\ b2.position.x > b.position.x
       /\ (b2.position.x - a2.position.x) * playfieldSize.width
            >= (ObstacleSize(a) + ObstacleSize(b)) * 100000
       /\ VelocityBounded(a2)
       /\ VelocityBounded(b2)
       /\ obstacles' = r.movedObstacles

\* C27: two obstacles at the identical position are, after the solver
\* passes of the tick, at least the sum of their radii apart, separated
\* along the fallback normal (1, 0), and every component of their
\* velocities is within [-500, 500].
C27_IdenticalPositionsResolved ==
  [][EveryTick(IdenticalResolved)]_vars

\* two small obstacles are side by side at the top of the range, 36 pixels
\* or more apart, centred on the column of the spawn
C27_Witness ==
  /\ Len(obstacles) = 2
  /\ timeRemaining < 4 * MAX_DELTA_TIME
  /\ obstacles[1].size = "small" /\ obstacles[2].size = "small"
  /\ obstacles[1].position.y = obstacles[2].position.y
  /\ obstacles[1].position.x + obstacles[2].position.x \in {99999, 100000}
  /\ (obstacles[2].position.x - obstacles[1].position.x) * playfieldSize.width
       >= 2 * OBSTACLE_SIZE_SMALL * 100000

\* a difference of 1/1000 percent as 1/10 pixel, rounded towards zero
Tenths(d, maxDim) ==
  IF d >= 0 THEN (d * maxDim) \div 10000 ELSE -((-d * maxDim) \div 10000)

\* the vector from position p to position q in 1/10 pixel
Between(p, q) ==
  [x |-> Tenths(q.x - p.x, playfieldSize.width), y |-> Tenths(q.y - p.y, playfieldSize.height)]

\* the normal of the pair as a direction: from the first centre to the
\* second, (1, 0) where the centres coincide
Normal(a, b) ==
  IF a.position = b.position THEN [x |-> 1, y |-> 0] ELSE Between(a.position, b.position)

\* the vector u points along the direction n (within 3 degrees)
Along(u, n) ==
  LET dot == u.x * n.x + u.y * n.y
      cross == u.x * n.y - u.y * n.x
  IN dot > 0 /\ Abs(cross) * 20 <= dot

\* the sum of the two radii the solver uses, in 1/10 pixel
Reach(a, b) == (ObstacleSize(a) + ObstacleSize(b)) * 10

Overlapping(a, b) ==
  DistSq10(a.position, b.position, playfieldSize.width, playfieldSize.height)
    < Reach(a, b) * Reach(a, b)

\* the velocity of b relative to a along the normal, as a sign
Closing(a, b) ==
  ((b.velocity.x - a.velocity.x) \div 1000) * Normal(a, b).x
    + ((b.velocity.y - a.velocity.y) \div 1000) * Normal(a, b).y

\* rounding of the position grid (1/1000 percent): two steps for each pass
GridSlack == 2 * COLLISION_SOLVER_PASSES

\* a2 and b2 are a and b after the solver: moved apart by the same amount
\* along the normal until the penetration is gone
MovedApart(a, b, a2, b2) ==
  /\ Abs((a2.position.x - a.position.x) + (b2.position.x - b.position.x)) <= GridSlack
  /\ Abs((a2.position.y - a.position.y) + (b2.position.y - b.position.y)) <= GridSlack
  /\ Along(Between(b.position, b2.position), Normal(a, b))
  /\ DistSq10(a2.position, b2.position, playfieldSize.width, playfieldSize.height)
       >= (Reach(a, b) - 1) * (Reach(a, b) - 1)
  /\ DistSq10(a2.position, b2.position, playfieldSize.width, playfieldSize.height)
       <= (Reach(a, b) + 2) * (Reach(a, b) + 2)

\* the change of the velocity of o to that of o2, in pixel per second
Kick(o, o2) ==
  [x |-> (o2.velocity.x - o.velocity.x) \div 1000,
   y |-> (o2.velocity.y - o.velocity.y) \div 1000]

Bounced(a, b, a2, b2) ==
  IF Closing(a, b) >= 0
  THEN a2.velocity = a.velocity /\ b2.velocity = b.velocity
  ELSE /\ a2.velocity.x - a.velocity.x = -(b2.velocity.x - b.velocity.x)
       /\ a2.velocity.y - a.velocity.y = -(b2.velocity.y - b.velocity.y)
       /\ Along(Kick(b, b2), Normal(a, b))
       /\ Abs(b2.velocity.x - b.velocity.x) <= MAX_IMPULSE * 1000
       /\ Abs(b2.velocity.y - b.velocity.y) <= MAX_IMPULSE * 1000

OverlapResolved(r) ==
  LET a == Meeting(r)[1]
      b == Meeting(r)[2]
  IN TwoMeet(r) /\ Overlapping(a, b) =>
       /\ MovedApart(a, b, r.movedObstacles[1], r.movedObstacles[2])
       /\ Bounced(a, b, r.movedObstacles[1], r.movedObstacles[2])
       /\ obstacles' = r.movedObstacles

\* C28: resolveObstacleCollision moves the centres of an overlapping pair
\* apart along the normal, each by half the penetration, whatever the
\* relative velocity; where the relative velocity along the normal is >= 0
\* both velocities are returned as they were, and where it is < 0 they
\* change by equal and opposite amounts along the normal, of at most 500.
\* Stated of the two obstacles the solver of a tick starts from.
C28_SeparatedAlwaysBouncedWhenClosing ==
  [][EveryTick(OverlapResolved)]_vars

\* two pairs after their tick: one that met head on and bounced, each
\* obstacle now flying back at 108 px/s, and one that met side by side
\* while the first flew away from the second and kept its velocity
C28_Witness ==
  /\ Len(obstacles) = 2
  /\ timeRemaining = 3 * MAX_DELTA_TIME
  /\ ~Overlapping(obstacles[1], obstacles[2])
  /\ DistSq10(obstacles[1].position, obstacles[2].position, playfieldSize.width, playfieldSize.height)
       <= (Reach(obstacles[1], obstacles[2]) + 2) * (Reach(obstacles[1], obstacles[2]) + 2)
  /\ \/ /\ obstacles[1].velocity.y = -(OBSTACLE_SPEED * DAMPING * 2 - OBSTACLE_SPEED * 1000)
        /\ obstacles[2].velocity.y = OBSTACLE_SPEED * DAMPING * 2 - OBSTACLE_SPEED * 1000
        /\ obstacles[1].position.x = obstacles[2].position.x
     \/ /\ obstacles[1].position.y = obstacles[2].position.y
        /\ obstacles[1].position.x < obstacles[2].position.x
        /\ obstacles[1].velocity.x < 0
        /\ obstacles[2].velocity.x = 0

(***************************************************************************)
(* The joystick around its deadzone                                        *)
(*                                                                         *)
(* The last ticks of a level without obstacles: the joystick is held at    *)
(* some deflection, and is moved to another one or released once.          *)
(***************************************************************************)
\* deflections below, at and above the deadzone, up to the full one; above
\* the deadzone they are remapped to 0, 1/4, 1/2, 3/4 and 1
StickMagnitudes == {50, DEADZONE - 1, DEADZONE, 363, 575, 788, 1000}

\* joystick vectors pointing up, and right at the edge of the deadzone and
\* at full deflection
StickInputs ==
  { [x |-> 0, y |-> -m, magnitude |-> m] : m \in StickMagnitudes }
    \cup { [x |-> m, y |-> 0, magnitude |-> m] : m \in {DEADZONE - 1, 1000} }

InitStick ==
  /\ gameState = "playing"
  /\ gameStateRef = "playing"
  /\ animationFrameRef = TRUE
  /\ gameOverReason = NoReason
  /\ playerPos = StartPos
  /\ bullets = << >>
  /\ obstacles = << >>
  /\ explosions = << >>
  /\ playfieldSize \in PlayfieldSizes
  /\ facingAngle = 0
  /\ score = 0
  /\ level = 1
  /\ destroyedThisLevel = 0
  /\ bossActive = FALSE
  /\ bossHits = 0
  /\ timeRemaining = 6 * MAX_DELTA_TIME
  /\ sensitivity = DEFAULT_SENSITIVITY
  /\ storedSensitivity = toString(sensitivity)
  /\ joystickVectorRef \in StickInputs \cup {ZeroVector}
  /\ explosionTimerRef = "null"
  /\ orphanTimers = 0
  /\ obstacleSpawnAccumulatorRef = 0
  /\ isFiringRef = FALSE
  /\ fireAccumulatorRef = 0
  /\ bossSpawnedThisAttemptRef = FALSE
  /\ controlEvents = MaxControlEvents - 1

NextStick ==
  \/ explosionTimeout
  \/ \E vector \in StickInputs : handleJoystickMove(vector) /\ joystickVectorRef # vector
  \/ handleJoystickNeutral /\ joystickVectorRef # ZeroVector
  \/ \E deltaTime \in DeltaTimes,
        eager \in IF ExpiresNow THEN BOOLEAN ELSE {FALSE},
        size \in Only(SizeDraws), spawnX \in Only(SpawnXDraws), angle \in Only(AngleDraws),
        bossAngle \in BossAngleDraws :
       gameLoop(deltaTime, eager, size, spawnX, angle, bossAngle)

SpecStick == InitStick /\ [][NextStick]_vars

InDeadzone(input) == input.magnitude < DEADZONE

\* C29: for every joystick input with magnitude < 0.15 processJoystickInput
\* returns the speed factor 0 and the zero direction, and a tick run with
\* such an input leaves the player position where it was; for a magnitude
\* in [0.15, 1] the speed factor lies in [0, 0.25] and no input of a larger
\* magnitude has a smaller speed factor.
C29_Deadzone ==
  [][/\ InDeadzone(joystickVectorRef) =>
          /\ processJoystickInput(joystickVectorRef)
               = [direction |-> [x |-> 0, y |-> 0], speedFactor |-> 0]
          /\ Ticks => playerPos' = playerPos
     /\ ~InDeadzone(joystickVectorRef) =>
          /\ processJoystickInput(joystickVectorRef).speedFactor >= 0
          /\ processJoystickInput(joystickVectorRef).speedFactor <= MAX_SPEED_MULTIPLIER
          /\ \A other \in StickInputs :
               other.magnitude >= joystickVectorRef.magnitude =>
                 processJoystickInput(other).speedFactor
                   >= processJoystickInput(joystickVectorRef).speedFactor]_vars

\* the jet flew for one tick at full deflection, the joystick was then let
\* back into the deadzone without being released, and the jet has stood
\* where that tick left it for the four ticks since
C29_Witness ==
  /\ gameState = "playing"
  /\ timeRemaining = MAX_DELTA_TIME
  /\ controlEvents = MaxControlEvents
  /\ InDeadzone(joystickVectorRef)
  /\ joystickVectorRef.magnitude > 0
  /\ playerPos = movePlayer(StartPos, [x |-> 0, y |-> -1000, magnitude |-> 1000], MAX_DELTA_TIME)
  /\ playerPos # StartPos

(***************************************************************************)
(* The sensitivity across page loads                                       *)
(*                                                                         *)
(* The page is loaded with some item in localStorage, the game is started, *)
(* paused and resumed, the sensitivity is set while the slider is shown,   *)
(* the item is changed from outside, and the page is loaded again.         *)
(***************************************************************************)
\* values the texts in localStorage stand for, in 1/1000
StoredValues == {-1000, 0, 300, 500, 1000, 1500, 2000, 2100}

\* what localStorage may hold when the page is loaded
StoredItems ==
  {NoItem, StorageThrows, [kind |-> "word", value |-> 0], [kind |-> "infinity", value |-> 0]}
    \cup {toString(value) : value \in StoredValues}
    \cup {[kind |-> "prefixed", value |-> value] : value \in {300, 1500}}

\* values passed to setSensitivity: positions of the slider, and a value
\* below and one above its range
SensitivityCalls == {300, 500, 1000, 1500, 2000, 2500}

\* the sensitivity slider is rendered while playing and while paused
SliderShown == gameState \in {"playing", "paused"}

InitSens ==
  /\ gameState = "idle"
  /\ gameOverReason = NoReason
  /\ playerPos = StartPos
  /\ bullets = << >>
  /\ obstacles = << >>
  /\ explosions = << >>
  /\ playfieldSize \in PlayfieldSizes
  /\ facingAngle = 0
  /\ score = 0
  /\ level = 1
  /\ destroyedThisLevel = 0
  /\ bossActive = FALSE
  /\ bossHits = 0
  /\ timeRemaining = 0
  /\ \E item \in StoredItems :
       /\ sensitivity = initialSensitivity(item)
       /\ storedSensitivity = persistSensitivity(item, sensitivity)
  /\ joystickVectorRef = ZeroVector
  /\ explosionTimerRef = "null"
  /\ orphanTimers = 0
  /\ animationFrameRef = FALSE
  /\ obstacleSpawnAccumulatorRef = 0
  /\ isFiringRef = FALSE
  /\ fireAccumulatorRef = 0
  /\ bossSpawnedThisAttemptRef = FALSE
  /\ gameStateRef = "idle"
  /\ controlEvents = 0

\* the page is loaded again: every state and ref starts anew, the
\* sensitivity from the item in localStorage, which the effect then rewrites
reloadPage ==
  /\ gameState' = "idle"
  /\ gameOverReason' = NoReason
  /\ playerPos' = StartPos
  /\ bullets' = << >>
  /\ obstacles' = << >>
  /\ explosions' = << >>
  /\ facingAngle' = 0
  /\ score' = 0
  /\ level' = 1
  /\ destroyedThisLevel' = 0
  /\ bossActive' = FALSE
  /\ bossHits' = 0
  /\ timeRemaining' = 0
  /\ sensitivity' = initialSensitivity(storedSensitivity)
  /\ storedSensitivity' = persistSensitivity(storedSensitivity, sensitivity')
  /\ joystickVectorRef' = ZeroVector
  /\ explosionTimerRef' = "null"
  /\ orphanTimers' = 0
  /\ animationFrameRef' = FALSE
  /\ obstacleSpawnAccumulatorRef' = 0
  /\ isFiringRef' = FALSE
  /\ fireAccumulatorRef' = 0
  /\ bossSpawnedThisAttemptRef' = FALSE
  /\ gameStateRef' = "idle"
  /\ controlEvents' = 0
  /\ UNCHANGED playfieldSize

\* the item is written, removed or made unusable from outside the hook
storageChanged(item) ==
  /\ storedSensitivity' = item
  /\ UNCHANGED << gameState, gameOverReason, playerPos, bullets, obstacles, explosions,
                  playfieldSize, facingAngle, score, level, destroyedThisLevel, bossActive,
                  bossHits, timeRemaining, sensitivity, joystickVectorRef, explosionTimerRef,
                  orphanTimers, animationFrameRef, obstacleSpawnAccumulatorRef, isFiringRef,
                  fireAccumulatorRef, bossSpawnedThisAttemptRef, gameStateRef, controlEvents >>

\* setClampedSensitivity and the effect that stores the new value
setSensitivity(value) ==
  /\ SliderShown
  /\ sensitivity' = clampSensitivity(value)
  /\ storedSensitivity' = persistSensitivity(storedSensitivity, sensitivity')
  /\ UNCHANGED << gameState, gameOverReason, playerPos, bullets, obstacles, explosions,
                  playfieldSize, facingAngle, score, level, destroyedThisLevel, bossActive,
                  bossHits, timeRemaining, joystickVectorRef, explosionTimerRef,
                  orphanTimers, animationFrameRef, obstacleSpawnAccumulatorRef, isFiringRef,
                  fireAccumulatorRef, bossSpawnedThisAttemptRef, gameStateRef, controlEvents >>

NextSens ==
  \/ reloadPage
  \/ \E item \in StoredItems : storageChanged(item) /\ item # storedSensitivity
  \/ startGame
  \/ pauseGame
  \/ resumeGame
  \/ \E value \in SensitivityCalls : setSensitivity(value)

SpecSens == InitSens /\ [][NextSens]_vars

\* the valid range of the sensitivity: (0, 2], in 1/1000
InValidRange(value) == value > 0 /\ value <= 2000

\* the item is a text that parses to a finite number in the valid range
StoredValid(item) ==
  /\ item \notin {NoItem, StorageThrows}
  /\ parseFloat(item).kind = "finite"
  /\ InValidRange(parseFloat(item).value)

\* a page load uses a valid stored value, and the default 1.0 otherwise,
\* and ends with the start screen
StartupValidated ==
  reloadPage =>
    /\ sensitivity' = IF StoredValid(storedSensitivity)
                      THEN parseFloat(storedSensitivity).value
                      ELSE 1000
    /\ gameState' = "idle"

\* a setSensitivity call leaves the sensitivity and the stored value valid
CallsStayValid ==
  (\E value \in SensitivityCalls : setSensitivity(value)) =>
    /\ InValidRange(sensitivity')
    /\ storedSensitivity' = StorageThrows \/ StoredValid(storedSensitivity')

\* C30: a page load takes for the sensitivity the stored value where that
\* parses to a finite number in (0, 2], and the default 1.0 where the value
\* is missing, unparsable, not finite or out of range, and starts in every
\* case; every setSensitivity call leaves the sensitivity in use and the
\* value persisted within the valid range.
C30_StoredSensitivityValidated ==
  [][StartupValidated /\ CallsStayValid]_vars

\* the part of C30 about setSensitivity alone
C30_CallsStayInRange ==
  [][CallsStayValid]_vars

\* the part of C30 about the stored values that hooks/useJoystickSensitivity.ts
\* takes over: those in [0.5, 2]
C30_StoredFromHalfUp ==
  [][reloadPage /\ StoredValid(storedSensitivity)
       /\ parseFloat(storedSensitivity).value >= MIN_SENSITIVITY
       => sensitivity' = parseFloat(storedSensitivity).value]_vars

(***************************************************************************)
(* The order of the steps of a tick                                        *)
(***************************************************************************)
\* the lists the bullet-obstacle pass reads are the lists of the state,
\* with what the tick spawned, advanced by this tick and separated
ReadsAdvanced(r) ==
  /\ r.movedBullets \in {moveBullets(bullets), moveBullets(Append(bullets, newBullet))}
  /\ ~SpawnsNow /\ r.bossSpawnedThisAttemptRef = bossSpawnedThisAttemptRef =>
       r.movedObstacles = updateObstacles(obstacles, MAX_DELTA_TIME)

\* every obstacle the tick removes is within reach of a projectile, both
\* where this tick has put them
HitsOnAdvanced(r) ==
  \A j \in 1..Len(r.movedObstacles) :
    (r.obstacles = Without(r.movedObstacles, {j}, 1)) =>
      \E i \in 1..Len(r.movedBullets) : bulletHits(r.movedBullets[i], r.movedObstacles[j])

\* the obstacle fully hits the jet, where the jet was before the tick or
\* where the tick has put it
HitsJet(r, obstacle) ==
  \E jet \in {playerPos, r.playerPos} :
    isFullHit(jet, JET_SIZE, obstacle.position, ObstacleSize(obstacle),
              playfieldSize.width, playfieldSize.height)

\* a tick that ends the game for an obstacle leaves that obstacle in the
\* list: the player check read the list after the hits of the tick
PlayerCheckAfterHits(r) ==
  gameOverReason # "obstacle" /\ r.st.gameOverReason = "obstacle" =>
    \E i \in 1..Len(r.obstacles) : HitsJet(r, r.obstacles[i])

StepsInOrder(r) ==
  ReadsAdvanced(r) /\ HitsOnAdvanced(r) /\ PlayerCheckAfterHits(r)

\* C31: the steps of a tick run in the order timer, firing, movement,
\* bullets, obstacles, obstacle-obstacle resolution, bullet-obstacle
\* resolution, player-obstacle resolution, and each sees what the earlier
\* ones did: the bullet-obstacle hits are judged on projectiles and
\* obstacles that this tick has already advanced and separated, and the
\* player-obstacle check reads the obstacle list after the hits of the tick
\* have removed obstacles from it.
C31_LaterStepsSeeEarlier ==
  [][EveryTick(StepsInOrder)]_vars

\* the part of C31 about the bullet-obstacle pass
C31_HitsJudgedOnAdvancedLists ==
  [][EveryTick(ReadsAdvanced) /\ EveryTick(HitsOnAdvanced)]_vars

(***************************************************************************)
(* The hits and the bonus of the boss                                      *)
(***************************************************************************)
\* what the tick adds to the score beyond the points of the regular
\* obstacles it destroys: the bonus in the tick that defeats the boss,
\* nothing in any other tick
BonusOnce(r) ==
  score' - score - ScoreOf(r.movedObstacles, r.hit.obstaclesToRemove)
    = IF bossHits < BOSS_MAX_HITS /\ bossHits' >= BOSS_MAX_HITS THEN SCORE_BOSS ELSE 0

\* C35: the hit counter of the boss never exceeds BOSS_MAX_HITS (15), and
\* the bonus of 100 is added to the score exactly once for a defeated boss,
\* also where two or more projectiles overlap the boss in the tick in which
\* the counter reaches the maximum.
C35_BossHitsCappedBonusOnce ==
  /\ [](bossHits <= BOSS_MAX_HITS)
  /\ [][EveryTick(BonusOnce)]_vars

\* the first part of C35 alone
C35_BossHitsCapped == bossHits <= BOSS_MAX_HITS

\* the second part of C35 alone
C35_BonusOnce == [][EveryTick(BonusOnce)]_vars

(***************************************************************************)
(* Two runs on the same inputs                                             *)
(***************************************************************************)
\* the world snapshot a tick leaves
Snapshot(r) ==
  << r.st.gameState, r.st.gameOverReason, r.score, level, r.timeRemaining,
     r.destroyedThisLevel, r.bossActive, r.bossHits, r.playerPos, r.bullets, r.obstacles >>

\* the moments at which the countdown updater of the next tick may run
UpdaterMoments == IF ExpiresNow THEN BOOLEAN ELSE {FALSE}

\* C32: two runs that were given the same delta-times, the same intents and
\* the same random draws have the same world snapshot after every tick
\* (phase, reason, score, level, timer, destroyed count, boss state, player,
\* projectiles, obstacles).  As the runs agree up to the state they are in,
\* this is: in every state in which a tick can run, the snapshot after the
\* tick is fixed by the state, the delta-time and the draws, whatever else
\* the tick may depend on.
C32_SameInputsSameWorld ==
  animationFrameRef =>
    \A deltaTime \in DeltaTimes, size \in SizeDraws, spawnX \in SpawnXDraws,
       angle \in AngleDraws, bossAngle \in BossAngleDraws :
      \A first, second \in UpdaterMoments :
        Snapshot(tick(deltaTime, first, size, spawnX, angle, bossAngle))
          = Snapshot(tick(deltaTime, second, size, spawnX, angle, bossAngle))

(***************************************************************************)
(* Movement intents between two ticks                                      *)
(***************************************************************************)
\* a step of one of the two joystick handlers
MovementIntent ==
  \/ \E vector \in AimInputs : handleJoystickMove(vector)
  \/ handleJoystickNeutral

\* the position the jet has after a tick that read the buffered vector
ReadsBufferedVector(r) ==
  r.playerPos = movePlayer(playerPos, joystickVectorRef, MAX_DELTA_TIME)

\* the projectiles a tick adds are shot from the position and with the
\* facing angle of the world the tick started in
FiredFromTickWorld(r) ==
  \A j \in Len(bullets) + 1..Len(r.movedBullets) : r.movedBullets[j] = Flown(newBullet)

\* C33: movement and facing-angle updates are applied once per tick and not
\* per input event: a movement intent between two ticks changes neither the
\* position of the jet nor the facing angle of the world; the next tick
\* moves the jet by the last buffered vector alone; a projectile fired in a
\* tick has the position and the facing angle of that tick's world.
C33_IntentsAppliedPerTick ==
  /\ [][MovementIntent => playerPos' = playerPos /\ facingAngle' = facingAngle]_vars
  /\ [][EveryTick(ReadsBufferedVector)]_vars
  /\ [][EveryTick(FiredFromTickWorld)]_vars

\* the part of C33 about the position of the jet between two ticks
C33_PositionPerTick == [][MovementIntent => playerPos' = playerPos]_vars

\* the part of C33 about the facing angle between two ticks
C33_FacingAnglePerTick == [][MovementIntent => facingAngle' = facingAngle]_vars

\* the part of C33 about the vector a tick reads
C33_TickReadsBufferedVector == [][EveryTick(ReadsBufferedVector)]_vars

\* the part of C33 about the projectiles
C33_ShotsFromTickWorld == [][EveryTick(FiredFromTickWorld)]_vars

(***************************************************************************)
(* Targets and durations of the levels                                     *)
(*                                                                         *)
(* The first ticks of a level from 1 to MaxLevelDrawn, entered with any    *)
(* number of obstacles destroyed and the countdown just initialised from   *)
(* getLevelDuration(level).                                                *)
(***************************************************************************)
MaxLevelDrawn == 5
LevelTicks == 2

LevelDraws == 1..MaxLevelDrawn

DestroyedDraws == 0..(OBSTACLES_PER_LEVEL * MaxLevelDrawn + 1)

InitLevels ==
  /\ gameState = "playing"
  /\ gameStateRef = "playing"
  /\ animationFrameRef = TRUE
  /\ gameOverReason = NoReason
  /\ playerPos = StartPos
  /\ bullets = << >>
  /\ obstacles = << >>
  /\ explosions = << >>
  /\ playfieldSize \in PlayfieldSizes
  /\ facingAngle = 0
  /\ level \in LevelDraws
  /\ destroyedThisLevel \in DestroyedDraws
  /\ score = destroyedThisLevel * SCORE_SMALL
  /\ bossActive = FALSE
  /\ bossHits = 0
  /\ timeRemaining = getLevelDuration(level) * MsPerSecond
  /\ sensitivity = DEFAULT_SENSITIVITY
  /\ storedSensitivity = toString(sensitivity)
  /\ joystickVectorRef = ZeroVector
  /\ explosionTimerRef = "null"
  /\ orphanTimers = 0
  /\ obstacleSpawnAccumulatorRef = 0
  /\ isFiringRef = FALSE
  /\ fireAccumulatorRef = 0
  /\ bossSpawnedThisAttemptRef = FALSE
  /\ controlEvents = 0

NextLevels ==
  \E deltaTime \in DeltaTimes,
     eager \in IF ExpiresNow THEN BOOLEAN ELSE {FALSE},
     size \in Only(SizeDraws), spawnX \in Only(SpawnXDraws), angle \in Only(AngleDraws),
     bossAngle \in BossAngleDraws :
    /\ timeRemaining > getLevelDuration(level) * MsPerSecond - LevelTicks * MAX_DELTA_TIME
    /\ gameLoop(deltaTime, eager, size, spawnX, angle, bossAngle)

SpecLevels == InitLevels /\ [][NextLevels]_vars

\* the target obstacle count of the level as GameScreen.tsx computes it
targetObstacles(lvl) == OBSTACLES_PER_LEVEL * lvl

\* C34: for every level >= 1 the target obstacle count and the boss spawn
\* threshold are both 5 * level, the stepped threshold function agreeing
\* with it at the levels 1, 2 and higher, so the target of level 3 is 15;
\* the target and the level duration strictly increase with the level, and
\* the duration of level 3 is 40 seconds.  The game acts on these numbers:
\* the countdown of a level never exceeds its duration, a tick adds the
\* boss only with 5 * level obstacles destroyed, and a tick that starts
\* with that many destroyed and no boss spawned yet adds it.
C34_TargetAndDurationByLevel ==
  /\ [](/\ getBossSpawnThreshold(level) = 5 * level
        /\ targetObstacles(level) = 5 * level)
  /\ [](level = 3 => getBossSpawnThreshold(level) = 15 /\ getLevelDuration(level) = 40)
  /\ [](\A lvl \in LevelDraws :
          lvl > level => /\ getBossSpawnThreshold(lvl) > getBossSpawnThreshold(level)
                         /\ targetObstacles(lvl) > targetObstacles(level)
                         /\ getLevelDuration(lvl) > getLevelDuration(level))
  /\ [](timeRemaining <= getLevelDuration(level) * MsPerSecond)
  /\ [][BossAdded => destroyedThisLevel >= 5 * level]_vars
  /\ [][Ticks /\ destroyedThisLevel >= 5 * level /\ ~bossSpawnedThisAttemptRef
          => HasBoss(obstacles')]_vars

\* the first tick of level 3 has added the boss with exactly 15 obstacles
\* destroyed, 40 seconds less one tick being left
C34_Witness ==
  /\ level = 3
  /\ destroyedThisLevel = 15
  /\ HasBoss(obstacles)
  /\ timeRemaining = 40 * MsPerSecond - MAX_DELTA_TIME

(***************************************************************************)
(* How a regular obstacle leaves the list                                  *)
(***************************************************************************)
\* the regular obstacles of a list
Regular(obs) == { i \in 1..Len(obs) : ~obs[i].isBoss }

\* the regular obstacles the tick spawns
SpawnedNow == IF SpawnsNow /\ playfieldSize.width # 0 /\ playfieldSize.height # 0 THEN 1 ELSE 0

\* the move, reflect, separate and filter updater of the tick has kept
\* every regular obstacle it was given: those of the list and the spawned one
NoneFilteredOut(r) ==
  Cardinality(Regular(r.movedObstacles)) = Cardinality(Regular(obstacles)) + SpawnedNow

\* the list was emptied by startGame or nextLevel
ListReset == gameState \in {"idle", "gameover", "levelcomplete"} /\ gameState' = "playing"

\* C36: a regular obstacle leaves the obstacle list only by a projectile
\* hit, which is scored and counted, or by the reset of a start or of the
\* next level; it is never removed silently, in particular not by the
\* out-of-bounds filter of the tick.
C36_RegularObstaclesLeaveOnlyByHit ==
  /\ [][Cardinality(Regular(obstacles')) < Cardinality(Regular(obstacles)) =>
          \/ ListReset /\ obstacles' = << >>
          \/ /\ Ticks
             /\ destroyedThisLevel' - destroyedThisLevel
                  >= Cardinality(Regular(obstacles)) - Cardinality(Regular(obstacles'))
             /\ score' > score]_vars
  /\ [][EveryTick(NoneFilteredOut)]_vars

(***************************************************************************)
(* The boss flag and the boss in the list                                  *)
(***************************************************************************)
\* C37: in every state between two ticks bossActive is true exactly when
\* the obstacle list contains a boss; the boss is never taken off the list
\* while bossActive stays true, and bossActive is never cleared while the
\* boss remains in the list.
C37_BossActiveIffBossInList ==
  /\ [](bossActive <=> HasBoss(obstacles))
  /\ [][HasBoss(obstacles) /\ ~HasBoss(obstacles') => ~bossActive']_vars
  /\ [][bossActive /\ ~bossActive' => ~HasBoss(obstacles')]_vars

\* the part of C37 about the removal of the boss alone
C37_BossNotRemovedWhileActive ==
  [][HasBoss(obstacles) /\ ~HasBoss(obstacles') => ~bossActive']_vars

(***************************************************************************)
(* Level completion against death                                          *)
(***************************************************************************)
\* the tick has completed the level
Completes(r) == r.hit.levelcomplete

\* the tick has started the death of the jet: the explosion is added and the
\* timer to gameover is armed
Dies(r) == explosionTimerRef = "null" /\ r.st.explosionTimerRef = "pending"

\* the tick ends in one of the two phases, and in levelcomplete only without
\* the death started
OneOutcome(r) ==
  /\ ~(Completes(r) /\ Dies(r))
  /\ Completes(r) => r.st.gameState = "levelcomplete"
  /\ Dies(r) => r.st.gameState = "exploding"

\* C38: level completion and death exclude each other: a tick in which the
\* final hit of the boss and a lethal cause fall together ends in exactly
\* one of levelcomplete and exploding; in levelcomplete no timer to gameover
\* is pending, and from levelcomplete the phase changes to neither
\* exploding nor gameover, only to playing by the next-level intent.
C38_CompletionExcludesDeath ==
  /\ [][EveryTick(OneOutcome)]_vars
  /\ [](gameState = "levelcomplete" => explosionTimerRef # "pending")
  /\ [][gameState = "levelcomplete" => gameState' \in {"levelcomplete", "playing"}]_vars

(***************************************************************************)
(* The input latches when the playing phase is left                        *)
(***************************************************************************)
\* the joystick vector is zero and the fire latch is off
LatchesCleared == joystickVectorRef = ZeroVector /\ ~isFiringRef

\* a tick that starts with a zero vector does not move the jet, and one
\* that starts with the fire latch off adds no projectile
NoInputNoEffect(r) ==
  /\ joystickVectorRef = ZeroVector => r.playerPos = playerPos
  /\ ~isFiringRef => Len(r.movedBullets) <= Len(bullets)

\* C39: the input latches are cleared on every exit from playing: outside
\* playing the joystick vector is zero and the fire latch is off, so the
\* game is entered again, by resume, restart or next level, with both
\* cleared, and the ticks move the jet and fire only after a new intent
\* given while playing.
C39_LatchesClearedOutsidePlaying ==
  /\ [](gameState # "playing" => LatchesCleared)
  /\ [][gameState # "playing" /\ gameState' = "playing" =>
          joystickVectorRef' = ZeroVector /\ ~isFiringRef']_vars
  /\ [][EveryTick(NoInputNoEffect)]_vars

\* the game was paused with the fire button held (of the two touches of
\* the game one held the fire button, the other paused, and projectiles are
\* in flight), and the latches are cleared
C39_Witness ==
  /\ gameState = "paused"
  /\ controlEvents = MaxControlEvents
  /\ Len(bullets) > 0
  /\ LatchesCleared

====
